---- MODULE Spec2Model ----
(***************************************************************************)
(* A model of pybline: the table extractor (core.extract_query_output),    *)
(* the re-renderer (utils.clean_out), the row/column parser                *)
(* (utils.text_to_df) and the command-execution cycles that own a remote   *)
(* shell session (core.run_sql, ssh.run_shell, ssh.run_shell_blocking).    *)
(*                                                                         *)
(* Text is modelled character by character: a Python str is a sequence of  *)
(* one-character strings, so "+-+" is <<"+", "-", "+">>.  Positions are    *)
(* 1-based; a search that finds nothing gives 0 (Python gives -1).         *)
(***************************************************************************)
EXTENDS Integers, Sequences, FiniteSets, TLC

----------------------------------------------------------------------------
(* Characters with a special role. *)

LF == "\n"
CR == "\r"
ZWSP == "<U+200B>"
ZWNJ == "<U+200C>"
ZWJ == "<U+200D>"
WJ == "<U+2060>"
BOM == "<U+FEFF>"

zero_width_chars == {ZWSP, ZWNJ, ZWJ, WJ, BOM}

Whitespace == {" ", LF, CR, "\t"}

Digits == {"0", "1", "2", "3", "4", "5", "6", "7", "8", "9"}

----------------------------------------------------------------------------
(* Python str primitives. *)

SetMin(S) == CHOOSE x \in S : \A y \in S : x <= y

SetMax(S) == CHOOSE x \in S : \A y \in S : y <= x

Range(s) == {s[i] : i \in 1..Len(s)}

Tail0(s, i) == SubSeq(s, i, Len(s))

StartsWith(s, p) == Len(p) <= Len(s) /\ SubSeq(s, 1, Len(p)) = p

Occurrences(s, p) == {i \in 1..(Len(s) - Len(p) + 1) : SubSeq(s, i, i + Len(p) - 1) = p}

Find(s, p) == IF Occurrences(s, p) = {} THEN 0 ELSE SetMin(Occurrences(s, p))

Contains(s, p) == Occurrences(s, p) # {}

RECURSIVE LStripChars(_, _)
LStripChars(s, chars) ==
    IF s # <<>> /\ Head(s) \in chars THEN LStripChars(Tail(s), chars) ELSE s

RECURSIVE RStripChars(_, _)
RStripChars(s, chars) ==
    IF s # <<>> /\ s[Len(s)] \in chars
    THEN RStripChars(SubSeq(s, 1, Len(s) - 1), chars)
    ELSE s

StripChars(s, chars) == RStripChars(LStripChars(s, chars), chars)

Strip(s) == StripChars(s, Whitespace)

LStrip(s) == LStripChars(s, Whitespace)

RECURSIVE Remove(_, _)
Remove(s, chars) ==
    IF s = <<>> THEN <<>>
    ELSE IF Head(s) \in chars THEN Remove(Tail(s), chars)
    ELSE <<Head(s)>> \o Remove(Tail(s), chars)

RECURSIVE Replace(_, _, _)
Replace(s, old, new) ==
    IF Find(s, old) = 0 THEN s
    ELSE SubSeq(s, 1, Find(s, old) - 1) \o new
         \o Replace(Tail0(s, Find(s, old) + Len(old)), old, new)

RECURSIVE Split(_, _)
Split(s, sep) ==
    IF Find(s, sep) = 0 THEN <<s>>
    ELSE <<SubSeq(s, 1, Find(s, sep) - 1)>>
         \o Split(Tail0(s, Find(s, sep) + Len(sep)), sep)

LineBreaks(s) == {i \in 1..Len(s) : s[i] \in {LF, CR}}

RECURSIVE SplitLines(_)
SplitLines(s) ==
    IF s = <<>> THEN <<>>
    ELSE IF LineBreaks(s) = {} THEN <<s>>
    ELSE LET i == SetMin(LineBreaks(s))
             w == IF s[i] = CR /\ i < Len(s) /\ s[i + 1] = LF THEN 2 ELSE 1
         IN  <<SubSeq(s, 1, i - 1)>> \o SplitLines(Tail0(s, i + w))

RECURSIVE Join(_, _)
Join(parts, sep) ==
    IF parts = <<>> THEN <<>>
    ELSE IF Len(parts) = 1 THEN parts[1]
    ELSE parts[1] \o sep \o Join(Tail(parts), sep)

Rep(c, n) == [i \in 1..n |-> c]

----------------------------------------------------------------------------
(* Outcome of a call: exc = "" for a normal return of val, otherwise the   *)
(* call raised and val is the empty value of its type.                     *)

Ok(v) == [exc |-> "", val |-> v]

Raised(e, empty) == [exc |-> e, val |-> empty]

----------------------------------------------------------------------------
(* utils.clean_out, with its default keyword arguments. *)

insert_zwsp == TRUE

extra_right_pad == 1

header_align_center == TRUE

Pipe == <<"|">>

extra_pad == IF extra_right_pad > 0 THEN extra_right_pad ELSE 0

(* step 1: the lines whose first non-blank character is '|' *)
clean_out_lines(output) ==
    SelectSeq(SplitLines(output), LAMBDA ln : StartsWith(LStrip(ln), Pipe))

(* step 2: cells[1:-1] of every line that splits into at least 3 fields *)
StripCells(cells) == [c \in 1..(Len(cells) - 2) |-> Strip(cells[c + 1])]

clean_out_rows(output) ==
    LET kept == SelectSeq(clean_out_lines(output),
                          LAMBDA ln : Len(Split(ln, Pipe)) >= 3)
    IN  [r \in 1..Len(kept) |-> StripCells(Split(kept[r], Pipe))]

(* step 3: the display width of column i *)
widths(rows, i) == SetMax({Len(rows[r][i]) : r \in 1..Len(rows)})

separator_str(rows) ==
    <<"+">> \o Join([i \in 1..Len(rows[1]) |->
                        Rep("-", widths(rows, i) + 2 + extra_pad)], <<"+">>)
    \o <<"+">>

Mark(cell, pad) == IF insert_zwsp /\ pad > 0 /\ cell # <<>> THEN <<ZWSP>> ELSE <<>>

(* step 5: one cell of a rendered row, between two '|' *)
format_cell(cell, width, is_header) ==
    LET base_pad == width - Len(cell)
        left_inner == IF is_header /\ header_align_center THEN base_pad \div 2 ELSE 0
        right_inner == base_pad - left_inner + extra_pad
    IN  <<" ">> \o Rep(" ", left_inner) \o cell \o Mark(cell, right_inner)
        \o Rep(" ", right_inner) \o <<" ", "|">>

format_row_fast(rows, r, is_header) ==
    Pipe \o Join([i \in 1..Len(rows[r]) |->
                     format_cell(rows[r][i], widths(rows, i), is_header)], <<>>)

(* A data row whose cell count differs from the header's makes the width   *)
(* computation or the final join fail: numpy rejects or cannot broadcast   *)
(* the ragged lengths, and format_row_fast gives None, which join rejects. *)
Ragged(rows) == \E r \in 1..Len(rows) : Len(rows[r]) # Len(rows[1])

clean_out(output) ==
    LET rows == clean_out_rows(output)
    IN  IF rows = <<>> THEN Ok(<<>>)
        ELSE IF Ragged(rows) THEN Raised("Exception", <<>>)
        ELSE Ok(Join(<<separator_str(rows), format_row_fast(rows, 1, TRUE),
                       separator_str(rows)>>
                     \o [r \in 1..(Len(rows) - 1) |-> format_row_fast(rows, r + 1, FALSE)]
                     \o <<separator_str(rows)>>, <<LF>>))

----------------------------------------------------------------------------
(* core.extract_query_output *)

PromptLiteral == <<"0", ":", " ", "j", "d", "b", "c", ":">>

ErrorLiteral == <<"E", "r", "r", "o", "r", ":">>

CarbonLiteral == <<"=", "=", " ", "C", "a", "r", "b", "o", "n", " ",
                   "P", "a", "r", "s", "e", "r", ":">>

RowsSelected == <<"r", "o", "w", "s", " ", "s", "e", "l", "e", "c", "t", "e", "d">>

NoRowsSelected == <<"N", "o", " ">> \o RowsSelected

OneRowSelected == <<"1", " ", "r", "o", "w", " ", "s", "e", "l", "e", "c", "t", "e", "d">>

(* re.search(r"(?m)^0: jdbc:[^\n]+>", output): the ends a match starting   *)
(* at i can have; the greedy [^\n]+ takes the last of them.                *)
PromptEnds(s, i) ==
    {j \in (i + Len(PromptLiteral) + 1)..Len(s) :
        /\ s[j] = ">"
        /\ \A k \in (i + Len(PromptLiteral))..(j - 1) : s[k] # LF}

PromptStarts(s) ==
    {i \in 1..Len(s) :
        /\ i = 1 \/ s[i - 1] = LF
        /\ StartsWith(Tail0(s, i), PromptLiteral)
        /\ PromptEnds(s, i) # {}}

(* mutant: the last prompt match is taken instead of the leftmost *)
prompt_marker_last(s) ==
    IF PromptStarts(s) = {} THEN 0 ELSE SetMax(PromptEnds(s, SetMax(PromptStarts(s))))

(* prompt_marker.end(), 0 when there is no match; re.search gives the      *)
(* leftmost match.                                                         *)
prompt_marker(s) ==
    IF PromptStarts(s) = {} THEN 0 ELSE SetMax(PromptEnds(s, SetMin(PromptStarts(s))))

Normalize(output) == Replace(output, <<CR, LF>>, <<LF>>)

StripPrompt(output) ==
    IF prompt_marker(output) = 0 THEN output
    ELSE Strip(Tail0(output, prompt_marker(output) + 1))

is_border(line) == StartsWith(Strip(line), <<"+">>) /\ Contains(line, <<"-">>)

is_opening(lines, i) ==
    /\ i + 2 <= Len(lines)
    /\ is_border(lines[i])
    /\ StartsWith(Strip(lines[i + 1]), Pipe)
    /\ is_border(lines[i + 2])

(* mutant: the scan keeps the last opening pattern instead of the first *)
table_start_last(lines) ==
    IF \E i \in 1..Len(lines) : is_opening(lines, i)
    THEN SetMax({i \in 1..Len(lines) : is_opening(lines, i)})
    ELSE 0

(* the forward scan of lines 53..62; 0 stands for None *)
table_start(lines) ==
    IF \E i \in 1..Len(lines) : is_opening(lines, i)
    THEN SetMin({i \in 1..Len(lines) : is_opening(lines, i)})
    ELSE 0

(* the backward scan of lines 58..61, from the last line down to i + 1 *)
table_end(lines, i) ==
    IF i = 0 \/ ~ \E j \in (i + 1)..Len(lines) : is_border(lines[j]) THEN 0
    ELSE SetMax({j \in (i + 1)..Len(lines) : is_border(lines[j])})

LeadingDigits(s) ==
    SetMax({d \in 0..Len(s) : \A k \in 1..d : s[k] \in Digits})

(* re.match(r"^\d+\srows selected|No rows selected|1 row selected", s) *)
rows_match(s) ==
    \/ LET d == LeadingDigits(s)
       IN  /\ d >= 1
           /\ d < Len(s)
           /\ s[d + 1] \in Whitespace
           /\ StartsWith(Tail0(s, d + 2), RowsSelected)
    \/ StartsWith(s, NoRowsSelected)
    \/ StartsWith(s, OneRowSelected)

(* mutant: the row-count line is looked for from the first line on *)
rows_line_anywhere(lines, end) ==
    LET hits == {i \in 1..Len(lines) : rows_match(Strip(lines[i]))}
    IN  IF hits = {} THEN <<>> ELSE Strip(lines[SetMin(hits)])

rows_line(lines, end) ==
    LET hits == {i \in (end + 1)..Len(lines) : rows_match(Strip(lines[i]))}
    IN  IF hits = {} THEN <<>> ELSE Strip(lines[SetMin(hits)])

(* mutant: the span is not cut before the parser banner *)
error_span_uncut(output) == Strip(Tail0(output, Find(output, ErrorLiteral)))

error_span(output) ==
    LET cleaned == Tail0(output, Find(output, ErrorLiteral))
        cut_off == Find(cleaned, CarbonLiteral)
    IN  Strip(IF cut_off # 0 THEN SubSeq(cleaned, 1, cut_off - 1) ELSE cleaned)

(* The (query_output, rows) pair, or the exception clean_out raised. *)
ExtractResult(exc, text, rows) == [exc |-> exc, text |-> text, rows |-> rows]

table_result(lines, start, end) ==
    LET cleaned == clean_out(Join(SubSeq(lines, start, end), <<LF>>))
    IN  IF cleaned.exc # "" THEN ExtractResult(cleaned.exc, <<>>, <<>>)
        ELSE ExtractResult("", Strip(cleaned.val), rows_line(lines, end))

extract_from(output) ==
    LET lines == SplitLines(output)
        start == table_start(lines)
        end == table_end(lines, start)
    IN  IF start # 0 /\ end # 0 /\ end > start THEN table_result(lines, start, end)
        ELSE IF Find(output, ErrorLiteral) # 0
        THEN ExtractResult("", error_span(output), <<>>)
        ELSE ExtractResult("", Strip(output), <<>>)

extract_query_output(output) == extract_from(StripPrompt(Normalize(output)))


----------------------------------------------------------------------------
(* utils.text_to_df.  A dataset is a header (column names) and rows of     *)
(* cells; None stands for the null cell.                                   *)

None == <<"<None>">>

NoneText == <<"N", "o", "n", "e">>

Dataset(header, rows) == [header |-> header, rows |-> rows]

EmptyDataset == Dataset(<<>>, <<>>)

(* mutant: only the whitespace is trimmed *)
trim_whitespace_only(text) == IF text = None THEN text ELSE Strip(text)

_trim_zwsp_and_whitespace(text) ==
    IF text = None THEN text ELSE Strip(Remove(text, zero_width_chars))

TrimAll(cells) == [c \in 1..Len(cells) |-> _trim_zwsp_and_whitespace(cells[c])]

(* divider_regex ^[\+\-]+$ on the stripped line *)
divider_regex(line) ==
    Strip(line) # <<>> /\ \A k \in 1..Len(Strip(line)) : Strip(line)[k] \in {"+", "-"}

CellSep == <<" ", "|", " ">>

header_cells(line) == TrimAll(Split(StripChars(line, {"|", " "}), CellSep))

row_cells(line) == TrimAll(Split(StripChars(line, {"|"}), CellSep))

(* lines 187..193: pad a short row with None, keep a row of header length *)
pad_row(row, header) ==
    IF Len(row) < Len(header)
    THEN row \o [c \in 1..(Len(header) - Len(row)) |-> None]
    ELSE row

(* mutant: a row longer than the header is kept too *)
keep_row_or_longer(row, header) == Len(pad_row(row, header)) >= Len(header)

keep_row(row, header) == Len(pad_row(row, header)) = Len(header)

ParseInit ==
    [counter |-> 1, has_header |-> FALSE, header |-> <<>>,
     processed_lines |-> <<>>, exc |-> ""]

(* mutant: the border after a block of rows starts the cycle anew *)
after_block_restart(st) == [st EXCEPT !.counter = 1]

(* lines 184..186: the border after a block of rows leads back to phase 2 *)
after_block(st) == [st EXCEPT !.counter = 2]

(* one iteration of the loop of lines 172..193 *)
parse_line(st, line) ==
    IF st.exc # "" THEN st
    ELSE IF divider_regex(line) /\ st.counter = 1 THEN [st EXCEPT !.counter = 2]
    ELSE IF st.counter = 2
    THEN [st EXCEPT !.counter = 3, !.has_header = TRUE, !.header = header_cells(line)]
    ELSE IF divider_regex(line) /\ st.counter = 3 THEN [st EXCEPT !.counter = 4]
    ELSE IF divider_regex(line) /\ st.counter = 4 THEN after_block(st)
    ELSE IF ~ st.has_header THEN [st EXCEPT !.exc = "TypeError"]
    ELSE IF keep_row(row_cells(line), st.header)
    THEN [st EXCEPT !.processed_lines = Append(@, pad_row(row_cells(line), st.header))]
    ELSE st

RECURSIVE parse_lines(_, _)
parse_lines(st, lines) ==
    IF lines = <<>> THEN st ELSE parse_lines(parse_line(st, Head(lines)), Tail(lines))

parse_table(output) == parse_lines(ParseInit, SplitLines(Strip(output)))

(* pd.DataFrame(processed_lines, columns=header): the rows are padded with *)
(* None to the longest row, whose length must be the number of columns.    *)
MaxRowLen(rows) == SetMax({Len(rows[r]) : r \in 1..Len(rows)})

frame_fits(header, rows) == rows = <<>> \/ MaxRowLen(rows) = Len(header)

(* mutant: the rows are taken as they are *)
frame_rows_unpadded(rows) == rows

frame_rows(rows) ==
    [r \in 1..Len(rows) |->
        rows[r] \o [c \in 1..(MaxRowLen(rows) - Len(rows[r])) |-> None]]

(* lines 207..217 for one cell: astype(str), drop zero-width characters,   *)
(* strip, and 'None' back to None                                          *)
(* mutant: the text 'None' is left as text *)
normalize_cell_text(cell) ==
    Strip(Remove(IF cell = None THEN NoneText ELSE cell, zero_width_chars))

normalize_cell(cell) ==
    LET text == Strip(Remove(IF cell = None THEN NoneText ELSE cell, zero_width_chars))
    IN  IF text = NoneText THEN None ELSE text

normalize_columns(header) == [c \in 1..Len(header) |-> Strip(Remove(header[c], zero_width_chars))]

(* df[col] of a repeated column name is a frame, which has no dtype *)
unique_columns(header) ==
    \A a, b \in 1..Len(header) : header[a] = header[b] => a = b

(* lines 195..219: the frame built from the parse, and its clean-up *)
frame_of(st) ==
    LET rows == st.processed_lines
    IN  IF st.exc # "" THEN Raised(st.exc, EmptyDataset)
        ELSE IF ~ frame_fits(st.header, rows) THEN Raised("ValueError", EmptyDataset)
        ELSE IF rows = <<>> THEN Ok(Dataset(st.header, <<>>))
        ELSE IF ~ unique_columns(normalize_columns(st.header))
        THEN Raised("AttributeError", EmptyDataset)
        ELSE Ok(Dataset(normalize_columns(st.header),
                        [r \in 1..Len(rows) |->
                            [c \in 1..Len(frame_rows(rows)[r]) |->
                                normalize_cell(frame_rows(rows)[r][c])]]))

text_to_df(output) == frame_of(parse_table(output))

Upper == <<"A", "B", "C", "D", "E", "F", "G", "H", "I", "J", "K", "L", "M",
           "N", "O", "P", "Q", "R", "S", "T", "U", "V", "W", "X", "Y", "Z">>

Letters == <<"a", "b", "c", "d", "e", "f", "g", "h", "i", "j", "k", "l", "m",
             "n", "o", "p", "q", "r", "s", "t", "u", "v", "w", "x", "y", "z">>

Lower(text) ==
    [i \in 1..Len(text) |->
        IF \E k \in 1..26 : Upper[k] = text[i]
        THEN Letters[CHOOSE k \in 1..26 : Upper[k] = text[i]]
        ELSE text[i]]

----------------------------------------------------------------------------
(* The dangerous-operation guard.  utils.is_dangerous_sql is imported by   *)
(* core.py but is not among the sources; it is written from section 4.5 of *)
(* the specification, with the keywords the example script lists as        *)
(* enabled.  The configurable patterns are not known and are left out.     *)

DropTable == <<"D", "R", "O", "P", " ", "T", "A", "B", "L", "E", " ", "x">>

DropTableLower == <<"d", "r", "o", "p", " ", "t", "a", "b", "l", "e", " ", "x">>

GrantAll ==
    <<"G", "R", "A", "N", "T", " ", "A", "L", "L", " ", "O", "N", " ", "x", " ", "T", "O", " ",
      "y">>

DeleteFrom == <<"D", "e", "l", "e", "t", "e", " ", "f", "r", "o", "m", " ", "x", ";">>

SelectAll == <<"S", "E", "L", "E", "C", "T", " ", "*", " ", "F", "R", "O", "M", " ", "x">>

SelectDropzone ==
    <<"S", "E", "L", "E", "C", "T", " ", "*", " ", "F", "R", "O", "M", " ", "d", "r", "o", "p",
      "z", "o", "n", "e">>

SelectExecId ==
    <<"S", "E", "L", "E", "C", "T", " ", "e", "x", "e", "c", "_", "i", "d", " ", "F", "R", "O",
      "M", " ", "x">>

Queries ==
    {DropTable, DropTableLower, GrantAll, DeleteFrom, SelectAll, SelectDropzone, SelectExecId}

(* dangerous_sql_config_example.py, lines 16..21: the operations enabled *)
dangerous_keywords ==
    {<<"D", "R", "O", "P">>, <<"D", "E", "L", "E", "T", "E">>,
     <<"T", "R", "U", "N", "C", "A", "T", "E">>, <<"G", "R", "A", "N", "T">>,
     <<"R", "E", "V", "O", "K", "E">>, <<"E", "X", "E", "C", "U", "T", "E">>,
     <<"E", "X", "E", "C">>}

WordChars == Range(Upper) \cup Range(Letters) \cup Digits \cup {"_"}

(* the maximal runs of word characters of a text *)
Tokens(text) ==
    {SubSeq(text, i, j) : i \in 1..Len(text), j \in 1..Len(text)} \cap
    UNION {{SubSeq(text, i, j) : j \in {k \in i..Len(text) :
                                          /\ \A m \in i..k : text[m] \in WordChars
                                          /\ (k = Len(text) \/ text[k + 1] \notin WordChars)}} :
              i \in {n \in 1..Len(text) : n = 1 \/ text[n - 1] \notin WordChars}}

(* mutant: a keyword is looked for anywhere in the text *)
is_dangerous_sql_anywhere(sql_query) ==
    \E k \in dangerous_keywords : Contains(Lower(sql_query), Lower(k))

(* section 4.5: some whole token is a keyword, whatever its case *)
is_dangerous_sql(sql_query) ==
    \E t \in Tokens(sql_query) : \E k \in dangerous_keywords : Lower(t) = Lower(k)

----------------------------------------------------------------------------
(* ssh.clean_output, and the sentinels the poll loops look for. *)

skip_phrases ==
    <<<<"L", "a", "s", "t", " ", "l", "o", "g", "i", "n", ":">>,
      <<"A", "u", "t", "h", "o", "r", "i", "z", "e", "d", " ", "u", "s", "e", "r", "s", " ",
        "o", "n", "l", "y", ".">>,
      <<"P", "a", "s", "s", "w", "o", "r", "d", ":">>,
      <<"s", "u", " ", "-", " ", "r", "o", "o", "t">>,
      <<"$", "s", "o", "u", "r", "c", "e">>,
      <<"$", "k", "i", "n", "i", "t">>,
      <<"p", "a", "a", "s", "@">>,
      <<"[", "r", "o", "o", "t", "@">>>>

(* lines 62..78; a command that is empty is falsy and adds no phrase *)
clean_output(out, command) ==
    LET phrases == IF command # <<>> THEN Append(skip_phrases, Strip(command))
                   ELSE skip_phrases
        skipped(line) == \E k \in 1..Len(phrases) : Contains(line, phrases[k])
    IN  Join(SelectSeq(Split(Strip(out), <<LF>>), LAMBDA line : ~ skipped(line)), <<LF>>)

RowSelected == <<"r", "o", "w", " ", "s", "e", "l", "e", "c", "t", "e", "d">>

ErrorWord == <<"E", "r", "r", "o", "r">>

(* mutant: the phrase for a single row is missing *)
terminal_phrases_plural == {RowsSelected, NoRowsSelected, ErrorWord}

(* core.py line 157 *)
terminal_phrases == {RowsSelected, NoRowsSelected, RowSelected, ErrorWord}

IsTerminal(new_data) == \E x \in terminal_phrases : Contains(new_data, x)

(* core.py line 33 *)
LoginBanner ==
    <<"C", "o", "n", "n", "e", "c", "t", "i", "n", "g", " ", "t", "o", " ",
      "j", "d", "b", "c", ":", "f", "i", "b", "e", "r">>

(* ssh.py line 105 *)
CmdDone == <<"_", "_", "C", "M", "D", "_", "D", "O", "N", "E", "_", "_">>

(* ssh.py line 143, the default marker *)
Complete == <<"_", "_", "C", "O", "M", "P", "L", "E", "T", "E", "_", "_">>

(* ssh.py line 114 *)
max_idle_waits == 600

(* ssh.py line 164, in seconds; the loop sleeps half a second (line 174) *)
blocking_timeout == 600

blocking_polls_per_second == 2

(* core.py line 14, in seconds; the loop sleeps a tenth of a second (line 37) *)
beeline_timeout == 10

beeline_polls_per_second == 10

----------------------------------------------------------------------------
(* State.  One call runs at a time; the variables of the calls that do not *)
(* run stay at their idle values.                                          *)

VARIABLES
    transcript,        \* extract_query_output: the argument
    ex_pc,             \* extract_query_output: position in the function
    output,            \* its local 'output' after lines 41..46
    lines,             \* its local 'lines'
    table_start_idx,   \* 0 stands for None
    table_end_idx,     \* 0 stands for None
    ex_result,         \* what the call returned or raised
    table_text,        \* text_to_df / clean_out: the argument
    df_pc,             \* position in the parse, render, parse again sequence
    parsed,            \* text_to_df: header and processed_lines after the loop
    df_result,         \* text_to_df(table_text)
    rendered,          \* clean_out(table_text)
    rt_result,         \* text_to_df(clean_out(table_text))
    proc,              \* the call that runs: run_sql, run_shell or run_shell_blocking
    spc,               \* its position
    args,              \* its arguments and what its surroundings answer
    session,           \* the SSH client: none, connected (no shell yet), open, closed
    connects,          \* connect attempts made
    sent,              \* what was sent to the remote shell, in order
    stream,            \* chunks on their way from the remote shell, in order
    sh_output,         \* the local 'output' of the poll loop
    received,          \* the chunks that loop has read, in order
    clock,             \* time.time() - start in sleeps of the loop, as far as the loop can tell
    idle_counter,      \* run_shell: polls without bytes since the last chunk
    call_result,       \* what the call returned or raised
    log_file,          \* the blocks of the day's log file
    alerts,            \* what became of each call of the alert sound
    dialogs,           \* the answers the confirmation dialog gave
    progress,          \* the row counts printed while polling
    td_pc,             \* table_to_df: its position
    td_args,           \* what its surroundings answer
    td_trace,          \* the calls it issued and how each ended (with what was raised)
    td_result,         \* what it returned: None or the frame; or that it raised
    mo_pc,             \* convert_month / this_monthx: position
    mo_args,           \* the function called and its arguments
    mo_result,         \* convert_month(value, offset)
    mo_back,           \* convert_month(convert_month(value, offset))
    tm_ref,            \* this_monthx: year and month of the reference month
    tm_i,              \* this_monthx: the loop variable
    printed            \* this_monthx: the lines printed, in order

exVars == <<transcript, ex_pc, output, lines, table_start_idx, table_end_idx, ex_result>>

dfVars == <<table_text, df_pc, parsed, df_result, rendered, rt_result>>

tdVars == <<td_pc, td_args, td_trace, td_result>>

moVars == <<mo_pc, mo_args, mo_result, mo_back, tm_ref, tm_i, printed>>

(* A Python value that is an int or a str. *)
IntVal(n) == [kind |-> "int", n |-> n, s |-> <<>>]

StrVal(s) == [kind |-> "str", n |-> 0, s |-> s]

NoValue == [kind |-> "none", n |-> 0, s |-> <<>>]

NoMonthArgs == [fn |-> "", value |-> NoValue, offset |-> 0, r |-> 0, ref_given |-> FALSE, ref |-> 0]

MoIdle ==
    /\ mo_pc = "idle"
    /\ mo_args = NoMonthArgs
    /\ mo_result = [exc |-> "", val |-> NoValue]
    /\ mo_back = [exc |-> "", val |-> NoValue]
    /\ tm_ref = <<0, 0>>
    /\ tm_i = 0
    /\ printed = <<>>

ssVarsOfCall == <<proc, spc, args, session, connects, sent, stream, sh_output, received, clock,
                 idle_counter, call_result, log_file, alerts, dialogs, progress>>

ssVars == <<proc, spc, args, session, connects, sent, stream, sh_output, received, clock,
           idle_counter, call_result, log_file, alerts, dialogs, progress, tdVars, moVars>>

NoResult == [exc |-> "", text |-> <<>>, rows |-> <<>>]

NoArgs == [sql_query |-> <<>>, queue_name |-> FALSE, io |-> FALSE, timeout |-> 0,
           log_enabled |-> FALSE, warn |-> FALSE, alert |-> FALSE, confirm |-> FALSE,
           config |-> FALSE, command |-> <<>>, marker |-> <<>>]

NoTableArgs == [config |-> FALSE, proceed |-> FALSE]

TdIdle ==
    /\ td_pc = "idle"
    /\ td_args = NoTableArgs
    /\ td_trace = <<>>
    /\ td_result = ""

SsIdle ==
    /\ TdIdle
    /\ proc = "idle"
    /\ spc = "idle"
    /\ args = NoArgs
    /\ session = "none"
    /\ connects = 0
    /\ sent = <<>>
    /\ stream = <<>>
    /\ sh_output = <<>>
    /\ received = <<>>
    /\ clock = 0
    /\ idle_counter = 0
    /\ call_result = NoResult
    /\ log_file = <<>>
    /\ alerts = <<>>
    /\ dialogs = <<>>
    /\ progress = <<>>

ExIdle ==
    /\ transcript = <<>>
    /\ ex_pc = "idle"
    /\ output = <<>>
    /\ lines = <<>>
    /\ table_start_idx = 0
    /\ table_end_idx = 0
    /\ ex_result = NoResult

(* lines 41..48: line endings, prompt removal, split into lines *)
ExPrepare ==
    /\ ex_pc = "start"
    /\ output' = StripPrompt(Normalize(transcript))
    /\ lines' = SplitLines(output')
    /\ ex_pc' = "scan"
    /\ UNCHANGED <<dfVars, ssVars, transcript, table_start_idx, table_end_idx, ex_result>>

(* lines 51..62: the forward scan for the opening, the backward scan for the end *)
ExScan ==
    /\ ex_pc = "scan"
    /\ table_start_idx' = table_start(lines)
    /\ table_end_idx' = table_end(lines, table_start_idx')
    /\ ex_pc' = "decide"
    /\ UNCHANGED <<dfVars, ssVars, transcript, output, lines, ex_result>>

HasTable == table_start_idx # 0 /\ table_end_idx # 0 /\ table_end_idx > table_start_idx

(* lines 65..73 *)
ExTable ==
    /\ ex_pc = "decide"
    /\ HasTable
    /\ ex_result' = table_result(lines, table_start_idx, table_end_idx)
    /\ ex_pc' = IF ex_result'.exc = "" THEN "table" ELSE "raised"
    /\ UNCHANGED <<dfVars, ssVars, transcript, output, lines, table_start_idx, table_end_idx>>

(* lines 76..82 *)
ExError ==
    /\ ex_pc = "decide"
    /\ ~ HasTable
    /\ Find(output, ErrorLiteral) # 0
    /\ ex_result' = ExtractResult("", error_span(output), <<>>)
    /\ ex_pc' = "error"
    /\ UNCHANGED <<dfVars, ssVars, transcript, output, lines, table_start_idx, table_end_idx>>

(* line 85 *)
ExFallback ==
    /\ ex_pc = "decide"
    /\ ~ HasTable
    /\ Find(output, ErrorLiteral) = 0
    /\ ex_result' = ExtractResult("", Strip(output), <<>>)
    /\ ex_pc' = "rest"
    /\ UNCHANGED <<dfVars, ssVars, transcript, output, lines, table_start_idx, table_end_idx>>

ExReturned == ex_pc \in {"table", "error", "rest"}

ExNext == ExPrepare \/ ExScan \/ ExTable \/ ExError \/ ExFallback

DfIdle ==
    /\ table_text = <<>>
    /\ df_pc = "idle"
    /\ parsed = ParseInit
    /\ df_result = Ok(EmptyDataset)
    /\ rendered = Ok(<<>>)
    /\ rt_result = Ok(EmptyDataset)

(* text_to_df, lines 166..193: the loop over the lines *)
DfParse ==
    /\ df_pc = "start"
    /\ parsed' = parse_table(table_text)
    /\ df_pc' = "parsed"
    /\ UNCHANGED <<exVars, ssVars, table_text, df_result, rendered, rt_result>>

(* text_to_df, lines 195..219: the frame and what is returned *)
DfFrame ==
    /\ df_pc = "parsed"
    /\ df_result' = frame_of(parsed)
    /\ df_pc' = "framed"
    /\ UNCHANGED <<exVars, ssVars, table_text, parsed, rendered, rt_result>>

(* clean_out on the same text *)
DfRender ==
    /\ df_pc = "framed"
    /\ rendered' = clean_out(table_text)
    /\ df_pc' = IF rendered'.exc = "" THEN "rendered" ELSE "render_raised"
    /\ UNCHANGED <<exVars, ssVars, table_text, parsed, df_result, rt_result>>

(* text_to_df on what clean_out returned *)
DfReparse ==
    /\ df_pc = "rendered"
    /\ rt_result' = text_to_df(rendered.val)
    /\ df_pc' = "reparsed"
    /\ UNCHANGED <<exVars, ssVars, table_text, parsed, df_result, rendered>>

DfNext == DfParse \/ DfFrame \/ DfRender \/ DfReparse


----------------------------------------------------------------------------
(* Transcripts: a few lines of a catalogue, joined by a line separator.    *)
(* Each family has the lines one part of the function looks for.          *)

MaxLines == 7

BorderLine == <<"+", "-", "+">>

HeaderLine == <<"|", "a", "|">>

WideLine == <<"|", "1", "|", "2", "|">>

CountLine == OneRowSelected

RECURSIVE SeqsUpTo(_, _)
SeqsUpTo(S, n) ==
    IF n = 0 THEN {<<>>}
    ELSE LET shorter == SeqsUpTo(S, n - 1)
         IN  shorter \cup {Append(q, x) : q \in {r \in shorter : Len(r) = n - 1}, x \in S}

TableCatalogue == {BorderLine, HeaderLine, CountLine}

TableTranscripts == {Join(q, <<LF>>) : q \in SeqsUpTo(TableCatalogue, MaxLines)}

MaxCountLines == 3

CountLine2 == <<" ", "2", " ">> \o RowsSelected \o <<".">>

CountCatalogue == {BorderLine, HeaderLine, CountLine, CountLine2}

(* a table opening, then up to MaxCountLines lines of the catalogue *)
CountTranscripts ==
    {Join(<<BorderLine, HeaderLine, BorderLine>> \o q, <<LF>>) :
        q \in SeqsUpTo(CountCatalogue, MaxCountLines)}

MaxPromptLines == 4

PromptLine == PromptLiteral \o <<"h", ">">>

ErrorLine == ErrorLiteral \o <<" ", "x">>

CarbonLine == CarbonLiteral

PlainLine == <<"f", "o", "o">>

PromptCatalogue == {PromptLine, ErrorLine, CarbonLine, PlainLine, BorderLine, HeaderLine}

PromptTranscripts ==
    {Join(q, sep) : q \in SeqsUpTo(PromptCatalogue, MaxPromptLines), sep \in {<<LF>>, <<CR, LF>>}}

MaxRaggedLines == 5

RaggedCatalogue == {BorderLine, HeaderLine, WideLine}

RaggedTranscripts == {Join(q, <<LF>>) : q \in SeqsUpTo(RaggedCatalogue, MaxRaggedLines)}

ExtractTranscripts ==
    TableTranscripts \cup CountTranscripts \cup PromptTranscripts \cup RaggedTranscripts

vars == <<exVars, dfVars, ssVars>>

InitExtract ==
    /\ transcript \in ExtractTranscripts
    /\ ex_pc = "start"
    /\ output = <<>>
    /\ lines = <<>>
    /\ table_start_idx = 0
    /\ table_end_idx = 0
    /\ ex_result = NoResult
    /\ DfIdle
    /\ SsIdle
    /\ MoIdle

SpecExtract == InitExtract /\ [][ExNext]_vars

(* Table texts as the remote tool draws them: every cell padded to its    *)
(* column's width between "| " and " |", borders of '+' and '-'.           *)

MaxRows == 2

(* one column; two columns; two columns of the same name *)
Headers == {<<<<"a">>>>, <<<<"a">>, <<"b">>>>, <<<<"a">>, <<"a">>>>}

CellTexts == {<<"1">>, <<>>, NoneText}

ColWidth(all, i) == SetMax({Len(all[r][i]) : r \in {x \in 1..Len(all) : Len(all[x]) >= i}})

DrawRow(all, r) ==
    Pipe \o Join([i \in 1..Len(all[r]) |->
                     <<" ">> \o all[r][i] \o Rep(" ", ColWidth(all, i) - Len(all[r][i]))
                     \o <<" ", "|">>], <<>>)

DrawBorder(all) ==
    <<"+">> \o Join([i \in 1..Len(all[1]) |-> Rep("-", ColWidth(all, i) + 2) \o <<"+">>], <<>>)

(* all[1] is the header, the rest are the data rows *)
DrawTable(all) ==
    Join(<<DrawBorder(all), DrawRow(all, 1), DrawBorder(all)>>
         \o [r \in 1..(Len(all) - 1) |-> DrawRow(all, r + 1)]
         \o <<DrawBorder(all)>>, <<LF>>)

Tuples(S, k) == {q \in SeqsUpTo(S, k) : Len(q) = k}

(* well-formed: k column names, up to MaxRows rows of exactly k cells *)
WellFormedTables ==
    UNION {{<<h>> \o rows : rows \in SeqsUpTo(Tuples(CellTexts, Len(h)), MaxRows)} :
              h \in Headers}

(* three column names, rows of 2, 3 and 4 cells *)
MaxUnevenRows == 3

UnevenRows == {<<<<"1">>, <<"2">>>>,
               <<<<"3">>, <<"4">>, <<"5">>>>,
               <<<<"6">>, <<"7">>, <<"8">>, <<"9">>>>}

UnevenTables ==
    {<<<<<<"a">>, <<"b">>, <<"c">>>>>> \o rows : rows \in SeqsUpTo(UnevenRows, MaxUnevenRows)}

(* cells and names that carry zero-width characters and stray blanks *)
MaxDirtyRows == 1

DirtyHeaders == {<<<<ZWSP, "a", WJ>>>>, <<<<"a">>, <<"b", BOM>>>>}

DirtyCells == {<<ZWSP, "1">>, <<"N", "o", ZWNJ, "n", "e">>, <<"1", BOM>>, <<ZWJ>>, <<"\t", "1">>}

DirtyTables ==
    UNION {{<<h>> \o rows : rows \in SeqsUpTo(Tuples(DirtyCells, Len(h)), MaxDirtyRows)} :
              h \in DirtyHeaders}

TableTexts == {DrawTable(all) : all \in WellFormedTables \cup UnevenTables \cup DirtyTables}

InitParse ==
    /\ table_text \in TableTexts
    /\ df_pc = "start"
    /\ parsed = ParseInit
    /\ df_result = Ok(EmptyDataset)
    /\ rendered = Ok(<<>>)
    /\ rt_result = Ok(EmptyDataset)
    /\ ExIdle
    /\ SsIdle
    /\ MoIdle

SpecParse == InitParse /\ [][DfNext]_vars

(* Paginated texts: an opening border, then groups of a header line, a     *)
(* border, data lines and a closing border; a line of other text may come  *)
(* before the opening border and after the last one.  A page is            *)
(* <<header, rows>>; names and cells are one character wide.               *)

MaxGroups == 2

MaxGroupRows == 1

PageHeaders == {<<<<"a">>>>, <<<<"a">>, <<"b">>>>}

PageRows(k) == IF k = 1 THEN {<<<<"1">>>>, <<<<"2">>>>}
               ELSE {<<<<"1">>, <<"2">>>>, <<<<"2">>, <<"1">>>>}

Pages == UNION {{<<h, rows>> : rows \in SeqsUpTo(PageRows(Len(h)), MaxGroupRows)} :
                   h \in PageHeaders}

PageBorder(k) == <<"+">> \o Join([i \in 1..k |-> <<"-", "-", "-", "+">>], <<>>)

PageLine(cells) == Pipe \o Join([i \in 1..Len(cells) |-> <<" ">> \o cells[i] \o <<" ", "|">>], <<>>)

PageLines(page) ==
    <<PageLine(page[1]), PageBorder(Len(page[1]))>>
    \o [r \in 1..Len(page[2]) |-> PageLine(page[2][r])]
    \o <<PageBorder(Len(page[1]))>>

RECURSIVE AllPageLines(_)
AllPageLines(pages) ==
    IF pages = <<>> THEN <<>> ELSE PageLines(Head(pages)) \o AllPageLines(Tail(pages))

(* lead and trail are sequences of lines *)
DrawPages(lead, pages, trail) ==
    Join(lead \o <<PageBorder(Len(pages[1][1]))>> \o AllPageLines(pages) \o trail, <<LF>>)

PageDocs ==
    {<<lead, pages, trail>> :
        lead \in {<<>>, <<PlainLine>>},
        pages \in SeqsUpTo(Pages, MaxGroups) \ {<<>>},
        trail \in {<<>>, <<CountLine>>}}

PageTexts == {DrawPages(doc[1], doc[2], doc[3]) : doc \in PageDocs}

InitPages ==
    /\ table_text \in PageTexts
    /\ df_pc = "start"
    /\ parsed = ParseInit
    /\ df_result = Ok(EmptyDataset)
    /\ rendered = Ok(<<>>)
    /\ rt_result = Ok(EmptyDataset)
    /\ ExIdle
    /\ SsIdle
    /\ MoIdle

SpecPages == InitPages /\ [][DfNext]_vars

----------------------------------------------------------------------------
(* What the remote side may answer: the text of an answer, cut into chunks *)
(* at any offsets.                                                         *)

MaxChunks == 2

MaxTimeout == 2

RECURSIVE Chunkings(_, _)
Chunkings(t, n) ==
    IF t = <<>> THEN {<<>>}
    ELSE IF n = 1 THEN {<<t>>}
    ELSE {<<t>>}
         \cup UNION {{<<SubSeq(t, 1, i)>> \o rest : rest \in Chunkings(Tail0(t, i + 1), n - 1)} :
                        i \in 1..(Len(t) - 1)}

SqlTable == Join(<<BorderLine, HeaderLine, BorderLine, OneRowSelected>>, <<LF>>)

SqlRagged ==
    Join(<<BorderLine, HeaderLine, BorderLine, WideLine, BorderLine, OneRowSelected>>, <<LF>>)

SqlRaggedTable == Join(<<BorderLine, HeaderLine, BorderLine, WideLine, BorderLine>>, <<LF>>)

(* an answer with a closing phrase comes cut anywhere; the others come     *)
(* whole, the ragged table also with its count line in a chunk of its own  *)
QueryReplies ==
    UNION {Chunkings(t, MaxChunks) : t \in {<<>>, ErrorLine, SqlTable}}
    \cup {<<PlainLine>>, <<SqlRagged>>, <<SqlRaggedTable, <<LF>> \o OneRowSelected>>}

(* The texts of table_to_df, for a table t with one column c. *)

(* fileops.py lines 261 and 331: the column of the names *)
ColName ==
    <<"c", "o", "l", "_", "n", "a", "m", "e">>

(* fileops.py line 254, for the table t *)
DescribeFormatted ==
    <<"D", "E", "S", "C", "R", "I", "B", "E", " ", "F", "O", "R", "M", "A",
      "T", "T", "E", "D", " ", "t">>

(* fileops.py line 329 *)
Describe ==
    <<"D", "E", "S", "C", "R", "I", "B", "E", " ", "t">>

(* fileops.py lines 336..342, on one line, for the export directory e *)
ExportQuery ==
    <<"I", "N", "S", "E", "R", "T", " ", "O", "V", "E", "R", "W", "R", "I",
      "T", "E", " ", "D", "I", "R", "E", "C", "T", "O", "R", "Y", " ", "'",
      "e", "/", "t", "'", " ", "S", "E", "L", "E", "C", "T", " ", "C", "O",
      "A", "L", "E", "S", "C", "E", "(", "c", ",", " ", "'", "'", ")", " ",
      "F", "R", "O", "M", " ", "t">>

(* fileops.py lines 349..355, for the remote directory r *)
GetMerge ==
    <<"s", "o", "u", "r", "c", "e", " ", "e", ";", LF, "k", "i", "n", "i",
      "t", " ", "-", "k", "t", " ", "k", " ", "u", ";", LF, "e", "c", "h",
      "o", " ", "\"", "c", "\"", " ", ">", " ", "r", "/", "t", ".", "c", "s",
      "v", ";", LF, "h", "d", "f", "s", " ", "d", "f", "s", " ", "-", "c",
      "a", "t", " ", "e", "/", "t", "/", "*", " ", ">", ">", " ", "r", "/",
      "t", ".", "c", "s", "v", ";", LF, "e", "c", "h", "o", " ", "_", "_",
      "C", "O", "M", "P", "L", "E", "T", "E", "_", "_">>

(* fileops.py lines 361..365 *)
HdfsRemove ==
    <<"s", "o", "u", "r", "c", "e", " ", "e", ";", LF, "k", "i", "n", "i",
      "t", " ", "-", "k", "t", " ", "k", " ", "u", ";", LF, "h", "d", "f",
      "s", " ", "d", "f", "s", " ", "-", "r", "m", " ", "-", "r", " ", "e",
      "/", "t", ";">>

(* fileops.py line 371 *)
Chmod ==
    <<"c", "h", "m", "o", "d", " ", "6", "4", "4", " ", "r", "/", "t", ".",
      "c", "s", "v">>

DescribeBorder == <<"+", "-", "-", "+">>

(* the answer to a DESCRIBE: the column of names with the name c *)
DescribeTable ==
    Join(<<DescribeBorder, Pipe \o ColName \o Pipe, DescribeBorder, <<"|", "c", "|">>,
           DescribeBorder, OneRowSelected>>, <<LF>>)

(* what comes back for a query: the queries of table_to_df are answered    *)
(* whole, by their table or count line or by an error                      *)
RepliesTo(sql_query) ==
    IF sql_query \in {DescribeFormatted, Describe} THEN {<<DescribeTable>>, <<ErrorLine>>}
    ELSE IF sql_query = ExportQuery THEN {<<NoRowsSelected>>, <<ErrorLine>>}
    ELSE QueryReplies

LoginReplies ==
    {<<>>, <<LoginBanner>>, <<LoginBanner, PromptLine>>,
     <<SubSeq(LoginBanner, 1, 14), Tail0(LoginBanner, 15)>>}

Commands == {<<"l", "s">>, <<"h", "d", "f", "s", " ", "-", "l", "s">>}

EchoCommand == <<";", " ", "e", "c", "h", "o", " ">>

ShellOutput == <<"o", "u", "t", LF>>

(* the terminal may echo the line typed; the marker comes when the command *)
(* is done; the cuts fall between the lines or inside the marker           *)
ShellReplies(line, marker) ==
    {<<>>,
     <<ShellOutput>>,
     <<ShellOutput \o marker \o <<LF>>>>,
     <<ShellOutput, marker \o <<LF>>>>,
     <<ShellOutput \o SubSeq(marker, 1, 6), Tail0(marker, 7) \o <<LF>>>>,
     <<line \o <<CR, LF>>, ShellOutput, marker \o <<LF>>>>,
     <<line \o <<CR, LF>> \o ShellOutput \o marker \o <<LF>>>>}

----------------------------------------------------------------------------
(* The calls that own a remote shell session.  Where a step can fail       *)
(* (the configuration file, the network, the decoding of received bytes,   *)
(* the log file) both outcomes are taken.  A chunk on its way may or may   *)
(* not have arrived when recv_ready() is asked.                            *)

Raise(e) ==
    /\ spc' = "raised"
    /\ call_result' = [exc |-> e, text |-> <<>>, rows |-> <<>>]

Return(text, rows) ==
    /\ spc' = "done"
    /\ call_result' = [exc |-> "", text |-> text, rows |-> rows]

Ready == IF stream = <<>> THEN {FALSE} ELSE BOOLEAN

(* mutant: a missing configuration file is read as an empty one *)
config_missing_ignored(exists) == FALSE

(* config.load_config, lines 16..19: FileNotFoundError unless the file exists *)
config_missing(exists) == ~ exists

(* mutant: the failure leaves ssh_connection as it came *)
connection_failure_bare(e) == e

(* ssh.ssh_connection, lines 54..55: whatever the try block raised leaves  *)
(* as a ConnectionError                                                    *)
connection_failure(e) == "ConnectionError"

(* ssh.ssh_connection, called on behalf of the running call *)
ssh_connection(next_pc) ==
    /\ spc = "connect"
    /\ \/ /\ config_missing(args.config)
          /\ Raise("FileNotFoundError")
          /\ UNCHANGED <<session, connects, sent>>
       \/ /\ ~ config_missing(args.config)
          /\ connects' = connects + 1
          /\ \/ /\ Raise(connection_failure("Exception"))
                /\ session' \in {"none", "connected"}
                /\ UNCHANGED sent
             \/ /\ session' = "open"
                /\ \/ /\ sent' = sent \o <<"su - root", "root_password">>
                      /\ spc' = next_pc
                      /\ UNCHANGED call_result
                   \/ /\ sent' \in {sent, Append(sent, "su - root")}
                      /\ Raise(connection_failure("Exception"))
    /\ UNCHANGED <<exVars, dfVars, tdVars, moVars, proc, args, stream, sh_output, received, clock, idle_counter,
                   log_file, alerts, dialogs, progress>>

(* run_sql, line 97: the result that tells of a cancellation *)
OperationCancelled == <<"Operation cancelled">>

(* mutant: an answer of no is not acted on *)
not_confirmed_ignored(answer) == FALSE

(* run_sql, line 94 *)
not_confirmed(answer) == ~ answer

(* mutant: the dialog is shown for a flagged query with the guard off too *)
guard_applies_unasked(warn, flagged) == flagged

(* run_sql, line 93 *)
guard_applies(warn, flagged) == warn /\ flagged

(* run_sql, lines 89..97: the default queue is read from the configuration *)
(* when none is given, then the guard; the dialog is not among the sources *)
(* and answers what its user answers                                       *)
RsGuard ==
    /\ proc = "run_sql"
    /\ spc = "call"
    /\ IF ~ args.queue_name /\ config_missing(args.config)
       THEN Raise("FileNotFoundError") /\ UNCHANGED dialogs
       ELSE IF guard_applies(args.warn, is_dangerous_sql(args.sql_query))
            THEN /\ dialogs' = Append(dialogs, args.confirm)
                 /\ IF not_confirmed(args.confirm) THEN Return(<<>>, OperationCancelled)
                    ELSE spc' = "connect" /\ UNCHANGED call_result
            ELSE spc' = "connect" /\ UNCHANGED <<call_result, dialogs>>
    /\ UNCHANGED <<exVars, dfVars, tdVars, moVars, proc, args, session, connects, sent, stream, sh_output, received,
                   clock, idle_counter, log_file, alerts, progress>>

(* run_sql, line 99 *)
RsConnect == proc = "run_sql" /\ ssh_connection("login")

(* beeline_session, lines 15..28: the login command is sent *)
RsLogin ==
    /\ proc = "run_sql"
    /\ spc = "login"
    /\ \/ /\ Raise("Exception")
          /\ UNCHANGED <<sent, stream, clock>>
       \/ /\ sent' = Append(sent, "beeline_command")
          /\ stream' \in {stream \o reply : reply \in LoginReplies}
          /\ clock' = 0
          /\ spc' = "banner"
          /\ UNCHANGED call_result
    /\ UNCHANGED <<exVars, dfVars, tdVars, moVars, proc, args, session, connects, sh_output, received, idle_counter,
                   log_file, alerts, dialogs, progress>>

(* mutant: any chunk ends the wait *)
shows_any_data(new_data) == new_data # <<>>

(* beeline_session, line 33 *)
shows_banner(new_data) == Contains(new_data, LoginBanner)

(* beeline_session, lines 29..37: one turn of the wait for the banner *)
RsBanner ==
    /\ proc = "run_sql"
    /\ spc = "banner"
    /\ \E ready \in Ready :
          \/ /\ ready
             /\ Raise("Exception")
             /\ UNCHANGED <<stream, sh_output, received, clock>>
          \/ /\ stream' = IF ready THEN Tail(stream) ELSE stream
             /\ sh_output' = IF ready THEN sh_output \o Head(stream) ELSE sh_output
             /\ received' = IF ready THEN Append(received, Head(stream)) ELSE received
             /\ IF (ready /\ shows_banner(Head(stream)))
                   \/ clock > beeline_timeout * beeline_polls_per_second
                THEN spc' = "drain" /\ UNCHANGED clock
                ELSE spc' = "banner" /\ clock' = clock + 1
             /\ UNCHANGED call_result
    /\ UNCHANGED <<exVars, dfVars, tdVars, moVars, proc, args, session, connects, sent, idle_counter,
                   log_file, alerts, dialogs, progress>>

(* run_sql, lines 103..104: one chunk that has arrived is read and dropped *)
RsDrain ==
    /\ proc = "run_sql"
    /\ spc = "drain"
    /\ TRUE \in Ready
    /\ \/ /\ Raise("Exception")
          /\ UNCHANGED stream
       \/ /\ stream' = Tail(stream)
          /\ UNCHANGED <<spc, call_result>>
    /\ UNCHANGED <<exVars, dfVars, tdVars, moVars, proc, args, session, connects, sent, sh_output, received, clock,
                   idle_counter, log_file, alerts, dialogs, progress>>

(* mutant: what the wait for the banner has read stays in the transcript *)
output_kept_at_send(out) == out

(* run_sql, line 107: the transcript starts empty once the query is sent *)
output_at_send(out) == <<>>

(* run_sql, lines 102..111: nothing has arrived, the query is sent *)
RsSend ==
    /\ proc = "run_sql"
    /\ spc = "drain"
    /\ \/ /\ Raise("Exception")
          /\ UNCHANGED <<sent, stream, sh_output, received, clock>>
       \/ /\ sent' = Append(sent, "sql_query")
          /\ stream' \in {stream \o reply : reply \in RepliesTo(args.sql_query)}
          /\ sh_output' = output_at_send(sh_output)
          /\ received' = <<>>
          /\ clock' = 0
          /\ spc' = "poll"
          /\ UNCHANGED call_result
    /\ UNCHANGED <<exVars, dfVars, tdVars, moVars, proc, args, session, connects, idle_counter, log_file, alerts, dialogs, progress>>

alert_outcomes == {"played", "failed"}

(* mutant: a sound that fails is let through to the caller *)
surfaces_failure(outcome) == outcome = "failed"

(* lines 116..120 and 158..162, utils.alert lines 24..35: both the alert   *)
(* and its call swallow every failure of the sound                         *)
surfaces(outcome) == FALSE

(* lines 115..121 and 158..163: the sound is tried when alert is set, and  *)
(* the loop is left                                                        *)
play_alert_sound ==
    IF args.alert
    THEN \E outcome \in alert_outcomes :
            /\ alerts' = Append(alerts, outcome)
            /\ IF surfaces(outcome) THEN Raise("Exception")
               ELSE spc' = "extract" /\ UNCHANGED call_result
    ELSE spc' = "extract" /\ UNCHANGED <<alerts, call_result>>

(* core.py lines 130..132 *)
is_dashed_border(text) == StartsWith(Strip(text), <<"+">>) /\ "-" \in Range(Strip(text))

(* core.py lines 127..148: the data rows the progress line counts *)
data_row_count(out) ==
    LET split == Split(out, <<LF>>)
        at(i) == IF i >= 1 /\ i <= Len(split) THEN split[i] ELSE <<>>
    IN  Cardinality({i \in 1..Len(split) :
            /\ ~ is_dashed_border(split[i])
            /\ StartsWith(Strip(split[i]), <<"|">>)
            /\ ~ (is_dashed_border(at(i - 1)) /\ is_dashed_border(at(i + 1)))})

(* mutant: the progress block keeps only the newest chunk *)
output_replaced(out, new_data) == new_data

(* core.py line 124, ssh.py lines 121..122 and 170 *)
output_after(out, new_data) == out \o new_data

(* mutant: the test for a closing phrase sits inside the progress block *)
closing_test_with_progress(io) == io

(* core.py line 157 comes after the block of 'if io:', at the level of the read *)
closing_test_reached(io) == TRUE

(* mutant: the loop is left as soon as the timeout is reached *)
timed_out_at(timeout, elapsed) == timeout > 0 /\ elapsed >= timeout

(* run_sql, line 114 *)
timed_out(timeout, elapsed) == timeout > 0 /\ elapsed > timeout

(* run_sql, lines 113..165: one turn of the poll loop *)
RsPoll ==
    /\ proc = "run_sql"
    /\ spc = "poll"
    /\ IF timed_out(args.timeout, clock)
       THEN /\ play_alert_sound
            /\ UNCHANGED <<stream, sh_output, received, clock, progress>>
       ELSE \E ready \in Ready :
               IF ready
               THEN \/ /\ Raise("Exception")
                       /\ UNCHANGED <<stream, sh_output, received, clock, alerts, progress>>
                    \/ /\ sh_output' = output_after(sh_output, Head(stream))
                       /\ received' = Append(received, Head(stream))
                       /\ stream' = Tail(stream)
                       /\ progress' = IF args.io
                                      THEN Append(progress, data_row_count(sh_output'))
                                      ELSE progress
                       /\ IF closing_test_reached(args.io) /\ IsTerminal(Head(stream))
                          THEN play_alert_sound
                          ELSE UNCHANGED <<alerts, spc, call_result>>
                       /\ UNCHANGED clock
               ELSE /\ clock' = IF clock > args.timeout THEN clock ELSE clock + 1
                    /\ UNCHANGED <<spc, stream, sh_output, received, call_result, alerts,
                                   progress>>
    /\ UNCHANGED <<exVars, dfVars, tdVars, moVars, proc, args, session, connects, sent, idle_counter,
                   log_file, dialogs>>

(* run_sql, line 173 *)
RsExtract ==
    /\ proc = "run_sql"
    /\ spc = "extract"
    /\ IF extract_query_output(sh_output).exc # ""
       THEN Raise(extract_query_output(sh_output).exc)
       ELSE spc' = "log" /\ call_result' = extract_query_output(sh_output)
    /\ UNCHANGED <<exVars, dfVars, tdVars, moVars, proc, args, session, connects, sent, stream, sh_output, received,
                   clock, idle_counter, log_file, alerts, dialogs, progress>>

(* run_sql, lines 175..192 *)
RsLog ==
    /\ proc = "run_sql"
    /\ spc = "log"
    /\ IF args.log_enabled
       THEN \/ /\ Raise("OSError")
               /\ UNCHANGED log_file
            \/ /\ log_file' = Append(log_file, [query |-> "sql_query",
                                               text |-> call_result.text,
                                               rows |-> call_result.rows])
               /\ spc' = "close"
               /\ UNCHANGED call_result
       ELSE spc' = "close" /\ UNCHANGED <<log_file, call_result>>
    /\ UNCHANGED <<exVars, dfVars, tdVars, moVars, proc, args, session, connects, sent, stream, sh_output, received,
                   clock, idle_counter, alerts, dialogs, progress>>

(* run_sql, lines 206..209 *)
RsClose ==
    /\ proc = "run_sql"
    /\ spc = "close"
    /\ session' = "closed"
    /\ spc' = "done"
    /\ UNCHANGED <<exVars, dfVars, tdVars, moVars, proc, args, connects, sent, stream, sh_output, received, clock,
                   idle_counter, call_result, log_file, alerts, dialogs, progress>>

RsNext ==
    \/ RsGuard \/ RsConnect \/ RsLogin \/ RsBanner \/ RsDrain \/ RsSend \/ RsPoll
    \/ RsExtract \/ RsLog \/ RsClose

(* "source <env_path>; kinit -kt <keytab_path> <user>; " with one-letter settings *)
EnvPrefix ==
    <<"s", "o", "u", "r", "c", "e", " ", "e", ";", " ", "k", "i", "n", "i", "t", " ",
      "-", "k", "t", " ", "k", " ", "u", ";", " ">>

(* ssh.py lines 99..102 and 154..157 *)
with_env(command) ==
    IF Contains(Lower(command), <<"h", "d", "f", "s">>)
       \/ Contains(Lower(command), <<"h", "a", "d", "o", "o", "p">>)
    THEN EnvPrefix \o command
    ELSE command

(* ssh.py line 106 *)
full_command(command) == with_env(command) \o EchoCommand \o CmdDone

IsShell == proc \in {"run_shell", "run_shell_blocking"}

(* run_shell lines 96..106, run_shell_blocking lines 152..157: the settings are read *)
ShCall ==
    /\ IsShell
    /\ spc = "call"
    /\ IF ~ config_missing(args.config) THEN spc' = "connect" /\ UNCHANGED call_result
       ELSE Raise("FileNotFoundError")
    /\ UNCHANGED <<exVars, dfVars, tdVars, moVars, proc, args, session, connects, sent, stream, sh_output, received,
                   clock, idle_counter, log_file, alerts, dialogs, progress>>

(* ssh.py lines 108 and 159 *)
ShConnect == IsShell /\ ssh_connection("send")

(* run_shell, lines 109..115 *)
ShSend ==
    /\ proc = "run_shell"
    /\ spc = "send"
    /\ \/ /\ Raise("Exception")
          /\ UNCHANGED <<sent, stream>>
       \/ /\ sent' = Append(sent, "full_command")
          /\ stream' \in ShellReplies(full_command(args.command), CmdDone)
          /\ spc' = "poll"
          /\ UNCHANGED call_result
    /\ UNCHANGED <<exVars, dfVars, tdVars, moVars, proc, args, session, connects, sh_output, received, clock,
                   idle_counter, log_file, alerts, dialogs, progress>>

(* run_shell, lines 117..137: one turn of the loop; a failure in it breaks *)
ShPoll ==
    /\ proc = "run_shell"
    /\ spc = "poll"
    /\ \E ready \in Ready :
          \/ /\ spc' = "close"
             /\ UNCHANGED <<stream, sh_output, received, idle_counter>>
          \/ /\ ready
             /\ sh_output' = output_after(sh_output, Head(stream))
             /\ received' = Append(received, Head(stream))
             /\ stream' = Tail(stream)
             /\ idle_counter' = 0
             /\ spc' = IF Contains(sh_output', CmdDone) THEN "close" ELSE "poll"
          \/ /\ ~ ready
             /\ idle_counter' = idle_counter + 1
             /\ spc' = IF idle_counter' > max_idle_waits THEN "close" ELSE "poll"
             /\ UNCHANGED <<stream, sh_output, received>>
    /\ UNCHANGED <<exVars, dfVars, tdVars, moVars, proc, args, session, connects, sent, clock, call_result,
                   log_file, alerts, dialogs, progress>>

(* run_shell, lines 139..140 *)
ShClose ==
    /\ proc = "run_shell"
    /\ spc = "close"
    /\ session' = "closed"
    /\ Return(clean_output(sh_output, with_env(args.command)), <<>>)
    /\ UNCHANGED <<exVars, dfVars, tdVars, moVars, proc, args, connects, sent, stream, sh_output, received, clock,
                   idle_counter, log_file, alerts, dialogs, progress>>

(* run_shell_blocking, lines 160..165 *)
BlSend ==
    /\ proc = "run_shell_blocking"
    /\ spc = "send"
    /\ \/ /\ Raise("Exception")
          /\ UNCHANGED <<sent, stream, clock>>
       \/ /\ sent' = Append(sent, "command")
          /\ stream' \in ShellReplies(with_env(args.command), args.marker)
          /\ clock' = 0
          /\ spc' = "poll"
          /\ UNCHANGED call_result
    /\ UNCHANGED <<exVars, dfVars, tdVars, moVars, proc, args, session, connects, sh_output, received, idle_counter,
                   log_file, alerts, dialogs, progress>>

(* run_shell_blocking, lines 167..174: one turn of the loop *)
BlPoll ==
    /\ proc = "run_shell_blocking"
    /\ spc = "poll"
    /\ IF ~ (clock < blocking_timeout * blocking_polls_per_second)
       THEN spc' = "close" /\ UNCHANGED <<stream, sh_output, received, clock, call_result>>
       ELSE \E ready \in Ready :
               IF ready
               THEN \/ /\ Raise("Exception")
                       /\ UNCHANGED <<stream, sh_output, received, clock>>
                    \/ /\ sh_output' = output_after(sh_output, Head(stream))
                       /\ received' = Append(received, Head(stream))
                       /\ stream' = Tail(stream)
                       /\ spc' = IF Contains(Head(stream), args.marker) THEN "close"
                                 ELSE "poll"
                       /\ UNCHANGED <<clock, call_result>>
               ELSE /\ clock' = clock + 1
                    /\ UNCHANGED <<spc, stream, sh_output, received, call_result>>
    /\ UNCHANGED <<exVars, dfVars, tdVars, moVars, proc, args, session, connects, sent, idle_counter,
                   log_file, alerts, dialogs, progress>>

(* mutant: without the marker the cleaned partial transcript is returned *)
blocking_outcome_partial(out, command, marker) ==
    [exc |-> "", text |-> clean_output(out, command)]

(* run_shell_blocking, lines 178..181 *)
blocking_outcome(out, command, marker) ==
    IF ~ Contains(out, marker) THEN [exc |-> "RuntimeError", text |-> <<>>]
    ELSE [exc |-> "", text |-> clean_output(out, command)]

(* run_shell_blocking, lines 176..181 *)
BlClose ==
    /\ proc = "run_shell_blocking"
    /\ spc = "close"
    /\ session' = "closed"
    /\ LET outcome == blocking_outcome(sh_output, with_env(args.command), args.marker)
       IN  IF outcome.exc # "" THEN Raise(outcome.exc) ELSE Return(outcome.text, <<>>)
    /\ UNCHANGED <<exVars, dfVars, tdVars, moVars, proc, args, connects, sent, stream, sh_output, received, clock,
                   idle_counter, log_file, alerts, dialogs, progress>>

ShNext == ShCall \/ ShConnect \/ ShSend \/ ShPoll \/ ShClose \/ BlSend \/ BlPoll \/ BlClose

SsNext == RsNext \/ ShNext

(* the arguments of run_sql (queue_name: whether one is given), with what  *)
(* its surroundings answer: confirm is the answer of the dialog if asked,  *)
(* config whether the configuration file exists                            *)
SqlArg(q, k, i, t, l, w, a, d, c) ==
    [sql_query |-> q, queue_name |-> k, io |-> i, timeout |-> t, log_enabled |-> l,
     warn |-> w, alert |-> a, confirm |-> d, config |-> c, command |-> <<>>,
     marker |-> <<>>]

(* the pairs of 'a queue name is given' and 'the configuration exists'; a  *)
(* call with both is the call with the configuration alone, which is read  *)
(* for the queue name only                                                 *)
QueueAndConfig == {<<FALSE, TRUE>>, <<FALSE, FALSE>>, <<TRUE, FALSE>>}

(* every setting of timeout, log_enabled and alert with the guard off; the *)
(* progress display off; and the guard on for every query, with the        *)
(* dialog declined and, for a flagged query, confirmed                     *)
SqlArgs ==
    {SqlArg(DropTable, FALSE, TRUE, t, l, FALSE, a, FALSE, c) :
        t \in {0, MaxTimeout}, l \in BOOLEAN, a \in BOOLEAN, c \in BOOLEAN}
    \cup {SqlArg(DropTable, FALSE, FALSE, 0, TRUE, FALSE, FALSE, FALSE, TRUE)}
    \cup {SqlArg(q, kc[1], TRUE, 0, TRUE, TRUE, FALSE, FALSE, kc[2]) :
             q \in Queries, kc \in QueueAndConfig}
    \cup {SqlArg(DropTable, kc[1], TRUE, 0, TRUE, TRUE, FALSE, TRUE, kc[2]) :
             kc \in QueueAndConfig}

ShellArgs(marker) ==
    {[sql_query |-> <<>>, queue_name |-> FALSE, io |-> FALSE, timeout |-> 0,
      log_enabled |-> FALSE, warn |-> FALSE, alert |-> FALSE, confirm |-> FALSE,
      config |-> c, command |-> cmd, marker |-> marker] :
        c \in BOOLEAN, cmd \in Commands}

InitSession ==
    /\ proc \in {"run_sql", "run_shell", "run_shell_blocking"}
    /\ args \in (CASE proc = "run_sql" -> SqlArgs
                   [] proc = "run_shell" -> ShellArgs(CmdDone)
                   [] OTHER -> ShellArgs(Complete))
    /\ spc = "call"
    /\ session = "none"
    /\ connects = 0
    /\ sent = <<>>
    /\ stream = <<>>
    /\ sh_output = <<>>
    /\ received = <<>>
    /\ clock = 0
    /\ idle_counter = 0
    /\ call_result = NoResult
    /\ log_file = <<>>
    /\ alerts = <<>>
    /\ dialogs = <<>>
    /\ progress = <<>>
    /\ TdIdle
    /\ MoIdle
    /\ ExIdle
    /\ DfIdle

SpecSession == InitSession /\ [][SsNext]_vars

(* run_sql alone, called with the log and without the guard and the alert, *)
(* none of which has a loop; its two loops keep turning                    *)
InitSql ==
    InitSession /\ proc = "run_sql" /\ ~ args.warn /\ args.log_enabled /\ ~ args.alert

SpecSqlFair == InitSql /\ [][RsNext]_vars /\ WF_vars(RsPoll) /\ WF_vars(RsBanner)

----------------------------------------------------------------------------
(* fileops.table_to_df: the size check, then six steps, each a call of     *)
(* run_sql, run_shell_blocking or run_shell that runs to its end before    *)
(* the next line, and the download.                                        *)

RemoteSteps == <<"size", "describe", "export", "merge", "cleanup", "chmod">>

TableSql(q) == SqlArg(q, FALSE, FALSE, 0, TRUE, TRUE, TRUE, FALSE, td_args.config)

TableShell(cmd, marker) ==
    [sql_query |-> <<>>, queue_name |-> FALSE, io |-> FALSE, timeout |-> 0,
     log_enabled |-> FALSE, warn |-> FALSE, alert |-> FALSE, confirm |-> FALSE,
     config |-> td_args.config, command |-> cmd, marker |-> marker]

(* the call of each step: fileops.py lines 255, 330, 343, 356, 366, 372 *)
CallOf(step) ==
    CASE step = "size" -> <<"run_sql", TableSql(DescribeFormatted)>>
      [] step = "describe" -> <<"run_sql", TableSql(Describe)>>
      [] step = "export" -> <<"run_sql", TableSql(ExportQuery)>>
      [] step = "merge" -> <<"run_shell_blocking", TableShell(GetMerge, Complete)>>
      [] step = "cleanup" -> <<"run_shell", TableShell(HdfsRemove, CmdDone)>>
      [] step = "chmod" -> <<"run_shell", TableShell(Chmod, CmdDone)>>

(* mutant: the clean-up of HDFS comes before the merge *)
step_after_cleanup_first(step) ==
    CASE step = "size" -> "describe"
      [] step = "describe" -> "export"
      [] step = "export" -> "cleanup"
      [] step = "cleanup" -> "merge"
      [] step = "merge" -> "chmod"
      [] step = "chmod" -> "download"

(* the order of the statements of lines 310..376 *)
step_after(step) ==
    CASE step = "size" -> "describe"
      [] step = "describe" -> "export"
      [] step = "export" -> "merge"
      [] step = "merge" -> "cleanup"
      [] step = "cleanup" -> "chmod"
      [] step = "chmod" -> "download"

(* lines 310 and 379..381: a failure of the size check leaves table_to_df, *)
(* any other is caught and None is returned                                *)
failure_outcome(step) == IF step = "size" THEN "raised" ELSE "None"

(* what follows the return of a step's call, before the next call: for the *)
(* size check lines 256..303 and 310..326, for the describe lines 331..332 *)
after_return(step, text) ==
    CASE step = "size" ->
            IF text_to_df(text).exc # "" THEN "raised"
            ELSE IF ~ td_args.proceed THEN "None"
            ELSE IF config_missing(td_args.config) THEN "None"
            ELSE ""
      [] step = "describe" ->
            IF text_to_df(text).exc # "" THEN "None"
            ELSE IF ColName \notin Range(text_to_df(text).val.header) THEN "None"
            ELSE ""
      [] OTHER -> ""

(* no call runs; what was recorded of the last one, the blocks it wrote to *)
(* the log among it, is laid aside                                         *)
NoCall ==
    /\ proc' = "idle"
    /\ spc' = "idle"
    /\ args' = NoArgs
    /\ session' = "none"
    /\ connects' = 0
    /\ sent' = <<>>
    /\ stream' = <<>>
    /\ sh_output' = <<>>
    /\ received' = <<>>
    /\ clock' = 0
    /\ idle_counter' = 0
    /\ call_result' = NoResult
    /\ alerts' = <<>>
    /\ dialogs' = <<>>
    /\ progress' = <<>>
    /\ log_file' = <<>>

(* the call of the step is made *)
TdIssue ==
    /\ td_pc \in Range(RemoteSteps)
    /\ proc = "idle"
    /\ proc' = CallOf(td_pc)[1]
    /\ args' = CallOf(td_pc)[2]
    /\ spc' = "call"
    /\ td_trace' = Append(td_trace, <<"issue", td_pc>>)
    /\ UNCHANGED <<exVars, dfVars, moVars, td_pc, td_args, td_result, session, connects, sent, stream,
                   sh_output, received, clock, idle_counter, call_result, log_file, alerts,
                   dialogs, progress>>

(* the call has returned *)
TdReturned ==
    /\ td_pc \in Range(RemoteSteps)
    /\ proc # "idle"
    /\ spc = "done"
    /\ td_trace' = Append(td_trace, <<"return", td_pc>>)
    /\ IF after_return(td_pc, call_result.text) = ""
       THEN td_pc' = step_after(td_pc) /\ UNCHANGED td_result
       ELSE td_pc' = "ended" /\ td_result' = after_return(td_pc, call_result.text)
    /\ NoCall
    /\ UNCHANGED <<exVars, dfVars, moVars, td_args>>

(* the call has raised *)
TdRaised ==
    /\ td_pc \in Range(RemoteSteps)
    /\ proc # "idle"
    /\ spc = "raised"
    /\ td_trace' = Append(td_trace, <<"raise", td_pc, call_result.exc>>)
    /\ td_pc' = "ended"
    /\ td_result' = failure_outcome(td_pc)
    /\ NoCall
    /\ UNCHANGED <<exVars, dfVars, moVars, td_args>>

(* lines 375..376: download_df gives the frame, or None when the download  *)
(* failed; when it raises, line 379 gives None                             *)
TdDownload ==
    /\ td_pc = "download"
    /\ td_trace' = Append(td_trace, <<"issue", "download">>)
    /\ td_pc' = "ended"
    /\ td_result' \in {"frame", "None"}
    /\ UNCHANGED <<exVars, dfVars, moVars, td_args, ssVarsOfCall>>

TdNext == TdIssue \/ TdReturned \/ TdRaised \/ TdDownload

InitTable ==
    /\ MoIdle
    /\ td_pc = "size"
    /\ td_args \in [config : BOOLEAN, proceed : BOOLEAN]
    /\ td_trace = <<>>
    /\ td_result = ""
    /\ proc = "idle"
    /\ spc = "idle"
    /\ args = NoArgs
    /\ session = "none"
    /\ connects = 0
    /\ sent = <<>>
    /\ stream = <<>>
    /\ sh_output = <<>>
    /\ received = <<>>
    /\ clock = 0
    /\ idle_counter = 0
    /\ call_result = NoResult
    /\ log_file = <<>>
    /\ alerts = <<>>
    /\ dialogs = <<>>
    /\ progress = <<>>
    /\ ExIdle
    /\ DfIdle

SpecTable == InitTable /\ [][TdNext \/ SsNext]_vars

----------------------------------------------------------------------------
(* utils.convert_month and utils.this_monthx: month codes (months since    *)
(* January 1970), 'YYYYMM' texts and the months before a reference month.  *)

DigitSeq == <<"0", "1", "2", "3", "4", "5", "6", "7", "8", "9">>

DigitValue(c) == CHOOSE d \in 0..9 : DigitSeq[d + 1] = c

(* str(n) of a natural number *)
RECURSIVE NatStr(_)
NatStr(n) == IF n < 10 THEN <<DigitSeq[n + 1]>> ELSE NatStr(n \div 10) \o <<DigitSeq[(n % 10) + 1]>>

(* f"{n}" *)
IntStr(n) == IF n < 0 THEN <<"-">> \o NatStr(0 - n) ELSE NatStr(n)

(* f"{n:02d}" *)
IntStr02(n) ==
    IF n < 0 THEN <<"-">> \o NatStr(0 - n)
    ELSE IF n < 10 THEN <<"0">> \o NatStr(n)
    ELSE NatStr(n)

RECURSIVE DigitsValue(_)
DigitsValue(ds) ==
    IF ds = <<>> THEN 0 ELSE DigitsValue(SubSeq(ds, 1, Len(ds) - 1)) * 10 + DigitValue(ds[Len(ds)])

(* int(text): blanks around the number and a sign before it are accepted;  *)
(* anything else than digits after them is a ValueError                    *)
ParseInt(text) ==
    LET t == Strip(text)
        signed == t # <<>> /\ Head(t) \in {"+", "-"}
        ds == IF signed THEN Tail(t) ELSE t
    IN  IF ds = <<>> \/ \E i \in 1..Len(ds) : ds[i] \notin Digits
        THEN Raised("ValueError", 0)
        ELSE Ok(IF signed /\ Head(t) = "-" THEN 0 - DigitsValue(ds) ELSE DigitsValue(ds))

(* line 388 *)
this_month(year, month) == (year - 1970) * 12 + (month - 1)

(* line 393 *)
year_of(value) == 1970 + (value \div 12)

(* mutant: the month is taken as it counts from zero *)
month_of_from_zero(value) == value % 12

(* line 394 *)
month_of(value) == (value % 12) + 1

(* convert_month, lines 385..398 *)
convert_month(value, offset) ==
    IF value.kind = "str" /\ Len(value.s) = 6
    THEN LET year == ParseInt(SubSeq(value.s, 1, 4))
             month == ParseInt(SubSeq(value.s, 5, 6))
         IN  IF year.exc # "" \/ month.exc # "" THEN Raised("ValueError", NoValue)
             ELSE Ok(IntVal(this_month(year.val, month.val) + offset))
    ELSE IF value.kind = "int"
    THEN Ok(StrVal(IntStr(year_of(value.n + offset)) \o IntStr02(month_of(value.n + offset))))
    ELSE Raised("ValueError", NoValue)

(* the calendar of datetime *)
IsLeap(y) == y % 4 = 0 /\ (y % 100 # 0 \/ y % 400 = 0)

DaysIn(y, m) ==
    IF m = 2 THEN (IF IsLeap(y) THEN 29 ELSE 28)
    ELSE IF m \in {4, 6, 9, 11} THEN 30
    ELSE 31

MonthBefore(y, m) == IF m = 1 THEN <<y - 1, 12>> ELSE <<y, m - 1>>

(* the year and month of the day that lies d days before the first of      *)
(* month m of year y: datetime(y, m, 1) - timedelta(days=d)                *)
RECURSIVE DaysBefore(_, _, _)
DaysBefore(y, m, d) ==
    IF d = 0 THEN <<y, m>>
    ELSE LET p == MonthBefore(y, m)
         IN  IF d <= DaysIn(p[1], p[2]) THEN p
             ELSE DaysBefore(p[1], p[2], d - DaysIn(p[1], p[2]))

(* lines 84..86: the reference month of a month code; with no ref, line 81 *)
(* takes the month of the clock, which 'ref' of the arguments holds then   *)
ref_date(ref) == <<(ref \div 12) + 1970, (ref % 12) + 1>>

(* line 91 *)
month_adjusted(ref, i) == DaysBefore(ref[1], ref[2], 30 * i)

(* line 92 *)
month_code(adjusted) == (adjusted[1] - 1970) * 12 + adjusted[2] - 1

(* lines 93..100: the line printed for i; the reference month stands       *)
(* between two rules and has no offset after it                            *)
printed_line(ref, i) ==
    [month |-> month_adjusted(ref, i)[2],
     year |-> month_adjusted(ref, i)[1],
     month_code |-> month_code(month_adjusted(ref, i)),
     offset |-> 0 - i,
     ruled |-> i = 0]

(* convert_month(value, offset) *)
MoConvert ==
    /\ mo_pc = "start"
    /\ mo_args.fn = "convert_month"
    /\ mo_result' = convert_month(mo_args.value, mo_args.offset)
    /\ mo_pc' = IF mo_result'.exc = "" THEN "converted" ELSE "raised"
    /\ UNCHANGED <<exVars, dfVars, ssVarsOfCall, tdVars, mo_args, mo_back, tm_ref, tm_i, printed>>

(* convert_month(what it returned) *)
MoConvertBack ==
    /\ mo_pc = "converted"
    /\ mo_back' = convert_month(mo_result.val, 0)
    /\ mo_pc' = "reconverted"
    /\ UNCHANGED <<exVars, dfVars, ssVarsOfCall, tdVars, mo_args, mo_result, tm_ref, tm_i, printed>>

(* this_monthx, lines 80..89 *)
TmRef ==
    /\ mo_pc = "start"
    /\ mo_args.fn = "this_monthx"
    /\ tm_ref' = ref_date(mo_args.ref)
    /\ tm_i' = mo_args.r
    /\ mo_pc' = "loop"
    /\ UNCHANGED <<exVars, dfVars, ssVarsOfCall, tdVars, mo_args, mo_result, mo_back, printed>>

(* this_monthx, lines 89..100: one turn of the loop *)
TmPrint ==
    /\ mo_pc = "loop"
    /\ printed' = Append(printed, printed_line(tm_ref, tm_i))
    /\ IF tm_i = 0 THEN mo_pc' = "done" /\ UNCHANGED tm_i
       ELSE tm_i' = tm_i - 1 /\ UNCHANGED mo_pc
    /\ UNCHANGED <<exVars, dfVars, ssVarsOfCall, tdVars, mo_args, mo_result, mo_back, tm_ref>>

MoNext == MoConvert \/ MoConvertBack \/ TmRef \/ TmPrint

(* Month codes around 1970 and at the ends of the four-digit years; texts  *)
(* of six characters, among them one of a year before 1000 and one that is *)
(* no number, and one of five characters.                                  *)
MaxCode == 13

MaxOffset == 1

MaxBack == 3

FirstCodeOfYear1000 == this_month(1000, 1)

LastCodeOfYear9999 == this_month(9999, 12)

IntCodes ==
    ((0 - MaxCode)..MaxCode)
    \cup {FirstCodeOfYear1000 - 1, FirstCodeOfYear1000, LastCodeOfYear9999, LastCodeOfYear9999 + 1}

YearTexts == {<<"0", "9", "9", "9">>, <<"1", "0", "0", "0">>, <<"1", "9", "6", "9">>,
              <<"1", "9", "7", "0">>, <<"2", "0", "2", "4">>, <<"9", "9", "9", "9">>}

MonthTexts == {<<"0", "1">>, <<"0", "2">>, <<"0", "3">>, <<"0", "4">>, <<"0", "5">>, <<"0", "6">>,
               <<"0", "7">>, <<"0", "8">>, <<"0", "9">>, <<"1", "0">>, <<"1", "1">>, <<"1", "2">>}

OtherTexts == {<<"9", "9", "9", "1", "2">>, <<"2", "0", "2", "4", "1", "x">>}

MonthValues ==
    {IntVal(n) : n \in IntCodes}
    \cup {StrVal(y \o m) : y \in YearTexts, m \in MonthTexts}
    \cup {StrVal(s) : s \in OtherTexts}

MonthArgs ==
    {[fn |-> "convert_month", value |-> v, offset |-> k, r |-> 0, ref_given |-> FALSE, ref |-> 0] :
        v \in MonthValues, k \in (0 - MaxOffset)..MaxOffset}
    \cup {[fn |-> "this_monthx", value |-> NoValue, offset |-> 0, r |-> r, ref_given |-> g, ref |-> c] :
             r \in 0..MaxBack, g \in BOOLEAN, c \in (0 - MaxCode)..MaxCode}

InitMonths ==
    /\ mo_pc = "start"
    /\ mo_args \in MonthArgs
    /\ mo_result = Ok(NoValue)
    /\ mo_back = Ok(NoValue)
    /\ tm_ref = <<0, 0>>
    /\ tm_i = 0
    /\ printed = <<>>
    /\ ExIdle
    /\ DfIdle
    /\ SsIdle

SpecMonths == InitMonths /\ [][MoNext]_vars

(* ssh_connection has returned the session to the call *)
SessionOpened == session # "none" /\ Len(sent) >= 2

(* C1 as claimed: when a call that opened a session has returned or raised, *)
(* on whatever path, the session has been closed.                           *)
C1_SessionClosedOnExit ==
    (spc \in {"done", "raised"} /\ SessionOpened /\ call_result.exc # "ConnectionError")
        => session = "closed"

----------------------------------------------------------------------------
(* What the claims say of a list of lines. *)

DashedBorder(line) == Strip(line) # <<>> /\ Head(Strip(line)) = "+" /\ "-" \in Range(line)

CellLine(line) == Strip(line) # <<>> /\ Head(Strip(line)) = "|"

Openings(ls) ==
    {i \in 1..(Len(ls) - 2) :
        DashedBorder(ls[i]) /\ CellLine(ls[i + 1]) /\ DashedBorder(ls[i + 2])}

Borders(ls) == {j \in 1..Len(ls) : DashedBorder(ls[j])}

ExThrough == ex_pc \in {"table", "error", "rest", "raised"}

(* C2: when the lines hold an opening pattern, the outcome is that of      *)
(* clean_out on the lines from the first opening pattern through the last  *)
(* dashed border of the transcript, stripped.                              *)
C2_FirstOpeningToLastBorder ==
    (ExThrough /\ Openings(lines) # {}) =>
        LET first == SetMin(Openings(lines))
            last == SetMax(Borders(lines))
            drawn == clean_out(Join(SubSeq(lines, first, last), <<LF>>))
        IN  /\ ex_pc \in {"table", "raised"}
            /\ ex_result.exc = drawn.exc
            /\ ex_result.text = Strip(drawn.val)

(* a table was returned from lines with two opening patterns and a line    *)
(* that is no table line between them, and with a line before the first    *)
C2_Witness ==
    /\ ex_pc = "table"
    /\ Cardinality(Openings(lines)) >= 2
    /\ \E i \in 1..Len(lines) :
          /\ SetMin(Openings(lines)) + 2 < i
          /\ i < SetMax(Openings(lines))
          /\ ~ DashedBorder(lines[i])
          /\ ~ CellLine(lines[i])

(* C3: with a table, rows_summary is the first line after the closing      *)
(* border that matches the row-count pattern (stripped), "" if there is    *)
(* none; a count line before or inside the table is never returned.        *)
CountLinesAfter(ls) ==
    {i \in (SetMax(Borders(ls)) + 1)..Len(ls) : rows_match(Strip(ls[i]))}

C3_RowsSummaryAfterTable ==
    (ex_pc = "table") =>
        IF CountLinesAfter(lines) = {} THEN ex_result.rows = <<>>
        ELSE ex_result.rows = Strip(lines[SetMin(CountLinesAfter(lines))])

(* a table with a count line inside its span and another, different one    *)
(* returned from after the closing border                                  *)
C3_Witness ==
    /\ ex_pc = "table"
    /\ ex_result.rows # <<>>
    /\ \E i \in table_start_idx..table_end_idx :
          rows_match(Strip(lines[i])) /\ Strip(lines[i]) # ex_result.rows


(* The lines of a transcript once CRLF is LF, and those that hold a prompt: *)
(* '0: jdbc:', at least one more character, and a '>' further on.          *)
TextLines(t) == Split(Replace(t, <<CR, LF>>, <<LF>>), <<LF>>)

LastGt(line) == SetMax({j \in 1..Len(line) : line[j] = ">"} \cup {0})

IsPromptLine(line) ==
    StartsWith(line, PromptLiteral) /\ LastGt(line) > Len(PromptLiteral) + 1

PromptLinesOf(tl) == {i \in 1..Len(tl) : IsPromptLine(tl[i])}

PromptLines(t) == PromptLinesOf(TextLines(t))

(* the text after line i of the lines tl *)
AfterLine(tl, i) == Join(SubSeq(tl, i + 1, Len(tl)), <<LF>>)

(* the text after the prompt of line i: the rest of that line and on *)
AfterPrompt(tl, i) ==
    Join(<<Tail0(tl[i], LastGt(tl[i]) + 1)>> \o SubSeq(tl, i + 1, Len(tl)), <<LF>>)

ExPrepared == ex_pc \notin {"idle", "start"}

(* C4 as claimed: everything up to and including the LAST prompt line is   *)
(* discarded before the search.  The code keeps what follows the FIRST.    *)
C4_LastPromptDiscarded ==
    (ExPrepared /\ PromptLines(transcript) # {}) =>
        LET tl == TextLines(transcript)
        IN  output = Strip(AfterLine(tl, SetMax(PromptLinesOf(tl))))

(* The text the search works on, said without the code's own search. *)
Remaining(t) ==
    LET tl == TextLines(t)
        prompts == PromptLinesOf(tl)
    IN  IF prompts = {} THEN Replace(t, <<CR, LF>>, <<LF>>)
        ELSE Strip(AfterPrompt(tl, SetMin(prompts)))

FirstError(text) == SetMin(Occurrences(text, ErrorLiteral))

CarbonAfter(text) ==
    LET first == FirstError(text)
    IN  {c \in Occurrences(text, CarbonLiteral) : c >= first}

ErrorSpanOf(text) ==
    LET first == FirstError(text)
        banners == CarbonAfter(text)
    IN  IF banners = {} THEN Tail0(text, first)
        ELSE SubSeq(text, first, SetMin(banners) - 1)

C6_FullTranscript ==
    (ExThrough /\ Openings(SplitLines(transcript)) = {}
               /\ Occurrences(transcript, ErrorLiteral) = {}) =>
        /\ ex_result.text = Strip(Replace(transcript, <<CR, LF>>, <<LF>>))
        /\ ex_result.rows = <<>>

(* C6 amended: with no opening pattern and no 'Error:' in the text left    *)
(* after CRLF normalisation and removal of everything through the first    *)
(* prompt, that remaining text comes back, trimmed, with no rows_summary.  *)
C6_RemainingText ==
    ExThrough =>
        LET rest == Remaining(transcript)
        IN  (Openings(SplitLines(rest)) = {} /\ Occurrences(rest, ErrorLiteral) = {}) =>
                /\ ex_pc = "rest"
                /\ ex_result.text = Strip(rest)
                /\ ex_result.rows = <<>>

(* the fallback ran on a CRLF transcript that had a prompt and text behind it *)
C6_Witness ==
    /\ ex_pc = "rest"
    /\ PromptLines(transcript) # {}
    /\ Occurrences(transcript, <<CR, LF>>) # {}
    /\ ex_result.text # <<>>
    /\ ex_result.text # Strip(transcript)


(* C7 as claimed: the call is total, it never raises; a table line whose   *)
(* cell count differs from the header's is tolerated.                      *)
C7_NeverRaises == ex_pc # "raised"


----------------------------------------------------------------------------
(* What the claims say of a drawn table: its cells are what stands between *)
(* the '|' of a line, without zero-width characters and outer blanks.      *)

CellsOf(line) ==
    LET fields == Split(line, Pipe)
    IN  [c \in 1..(Len(fields) - 2) |-> Strip(Remove(fields[c + 1], zero_width_chars))]

HeaderOf(t) == CellsOf(SplitLines(t)[2])

DataLinesOf(t) == SubSeq(SplitLines(t), 4, Len(SplitLines(t)) - 1)

WellFormed(t) ==
    \A r \in 1..Len(DataLinesOf(t)) : Len(CellsOf(DataLinesOf(t)[r])) = Len(HeaderOf(t))

NullIfNone(cell) == IF cell = NoneText THEN None ELSE cell

NullsIn(rows) == [r \in 1..Len(rows) |-> [c \in 1..Len(rows[r]) |-> NullIfNone(rows[r][c])]]

DfReturned == df_pc \in {"framed", "rendered", "render_raised", "reparsed"}

(* C8 as claimed: a well-formed table of k columns and n rows parses to    *)
(* the k header cells and the n rows of trimmed cells, in order (a cell    *)
(* 'None' read as the null the data model makes of it).                    *)
C8_HeaderAndRows ==
    (DfReturned /\ WellFormed(table_text)) =>
        /\ df_result.exc = ""
        /\ df_result.val.header = HeaderOf(table_text)
        /\ df_result.val.rows =
              NullsIn([r \in 1..Len(DataLinesOf(table_text)) |-> CellsOf(DataLinesOf(table_text)[r])])

(* C9: for a well-formed table text t, clean_out(t) is rendered and        *)
(* text_to_df gives for it what it gives for t: the same header, rows and  *)
(* nulls (and, where text_to_df raises for t, the same exception).         *)
C9_RoundTrip ==
    WellFormed(table_text) =>
        /\ df_pc # "render_raised"
        /\ df_pc = "reparsed" => rt_result = df_result

(* two rows came back the same from the text with the zero-width marker,   *)
(* among their cells a null and an empty one                               *)
C9_Witness ==
    /\ df_pc = "reparsed"
    /\ WellFormed(table_text)
    /\ ZWSP \in Range(rendered.val)
    /\ rendered.val # table_text
    /\ rt_result.exc = ""
    /\ Len(rt_result.val.rows) = 2
    /\ \E r \in 1..2 : None \in Range(rt_result.val.rows[r])
    /\ \E r \in 1..2 : <<>> \in Range(rt_result.val.rows[r])

(* The rows the claim keeps: short ones padded with None, long ones gone. *)
RECURSIVE KeptRows(_, _)
KeptRows(rows, k) ==
    IF rows = <<>> THEN <<>>
    ELSE LET row == Head(rows)
         IN  (IF Len(row) < k THEN <<row \o [c \in 1..(k - Len(row)) |-> None]>>
              ELSE IF Len(row) = k THEN <<row>>
              ELSE <<>>)
             \o KeptRows(Tail(rows), k)

CellRows(t) == [r \in 1..Len(DataLinesOf(t)) |-> CellsOf(DataLinesOf(t)[r])]

(* C10: under a header of k cells, a line of fewer than k cells is kept,   *)
(* padded on the right with nulls to k; a line of k cells is kept as it    *)
(* is; a line of more than k cells is dropped, not cut to k.               *)
C10_PadKeepDrop ==
    (df_pc \notin {"idle", "start"}) =>
        /\ parsed.exc = ""
        /\ parsed.header = HeaderOf(table_text)
        /\ parsed.processed_lines = KeptRows(CellRows(table_text), Len(HeaderOf(table_text)))
        /\ (DfReturned /\ df_result.exc = "") =>
              df_result.val.rows =
                  NullsIn(KeptRows(CellRows(table_text), Len(HeaderOf(table_text))))

(* three columns; a line of 2, one of 3 and one of 4 cells were parsed *)
C10_Witness ==
    /\ DfReturned
    /\ Len(HeaderOf(table_text)) = 3
    /\ {Len(CellRows(table_text)[r]) : r \in 1..Len(CellRows(table_text))} = {2, 3, 4}
    /\ df_result.exc = ""
    /\ Len(df_result.val.rows) = 2
    /\ \E r \in 1..2 : df_result.val.rows[r][3] = None


(* a text free of zero-width characters and of outer whitespace *)
CleanText(text) == Range(text) \cap zero_width_chars = {} /\ Strip(text) = text

CleanDataset(ds) ==
    /\ \A c \in 1..Len(ds.header) : CleanText(ds.header[c])
    /\ \A r \in 1..Len(ds.rows) : \A c \in 1..Len(ds.rows[r]) :
          ds.rows[r][c] # None => (CleanText(ds.rows[r][c]) /\ ds.rows[r][c] # NoneText)

(* C11: a dataset that text_to_df returns has no zero-width character and  *)
(* no outer whitespace in a header name or a non-null cell, no cell is the *)
(* text 'None', and a cell whose trimmed text is 'None' is null.           *)
C11_CleanCells ==
    /\ (DfReturned /\ df_result.exc = "") =>
          /\ CleanDataset(df_result.val)
          /\ LET kept == KeptRows(CellRows(table_text), Len(HeaderOf(table_text)))
             IN  \A r \in 1..Len(df_result.val.rows) :
                    \A c \in 1..Len(df_result.val.rows[r]) :
                        kept[r][c] = NoneText => df_result.val.rows[r][c] = None
    /\ (df_pc = "reparsed" /\ rt_result.exc = "") => CleanDataset(rt_result.val)

(* a name and a cell came with zero-width characters, and 'No<ZWNJ>ne' came *)
(* back as a null                                                          *)
C11_Witness ==
    /\ DfReturned
    /\ df_result.exc = ""
    /\ Range(SplitLines(table_text)[2]) \cap zero_width_chars # {}
    /\ Len(df_result.val.rows) = 1
    /\ ZWNJ \in Range(DataLinesOf(table_text)[1])
    /\ BOM \in Range(DataLinesOf(table_text)[1])
    /\ df_result.val.rows[1] = <<None, <<"1">>>>

----------------------------------------------------------------------------
(* What the claims say of the poll loops. *)

QuerySent == proc = "run_sql" /\ "sql_query" \in Range(sent)

ClosingChunk(chunk) ==
    \/ Contains(chunk, RowsSelected)
    \/ Contains(chunk, NoRowsSelected)
    \/ Contains(chunk, RowSelected)
    \/ Contains(chunk, ErrorWord)

(* C12: run_sql's poll loop stops at the first chunk that holds one of     *)
(* 'rows selected', 'No rows selected', 'row selected', 'Error': while it  *)
(* polls no chunk read held one, only the last chunk read can hold one,    *)
(* and that chunk is part of the transcript.                               *)
C12_StopsAtFirstClosingChunk ==
    QuerySent =>
        /\ sh_output = Join(received, <<>>)
        /\ \A i \in 1..(Len(received) - 1) : ~ ClosingChunk(received[i])
        /\ spc = "poll" => \A i \in 1..Len(received) : ~ ClosingChunk(received[i])

(* the second chunk read closed the loop and a later chunk stayed unread *)
C12_Witness ==
    /\ QuerySent
    /\ spc = "done"
    /\ Len(received) = 2
    /\ ClosingChunk(received[2])
    /\ sh_output = received[1] \o received[2]
    /\ stream # <<>>

(* the loop of run_sql was left because a chunk held a closing phrase *)
ClosedByChunk ==
    /\ QuerySent
    /\ spc \in {"extract", "log", "close", "done"}
    /\ received # <<>>
    /\ ClosingChunk(received[Len(received)])

(* everything the remote side delivers after the query, whatever the cuts *)
WholeTranscript == Join(received \o stream, <<>>)

(* C13 as claimed: the cuts between the chunks do not matter.  Delivered   *)
(* in one chunk, a transcript with a closing phrase ends the loop with the *)
(* whole transcript in the buffer; so does every other delivery of it, and *)
(* what extract_query_output returns is what it returns for the whole.     *)
C13_CutsDoNotMatter ==
    /\ ClosedByChunk => sh_output = WholeTranscript
    /\ (ClosedByChunk /\ spc \in {"log", "close", "done"}) =>
          call_result = extract_query_output(WholeTranscript)
    /\ (QuerySent /\ spc = "poll" /\ stream = <<>>) => ~ ClosingChunk(WholeTranscript)

Polling == QuerySent /\ spc = "poll"

(* C14: with timeout > 0 the turn of the poll loop that begins after more  *)
(* than timeout has elapsed leaves the loop, reading nothing, whatever has *)
(* arrived; the loop is left without a closing chunk only then (never with *)
(* timeout = 0); and with timeout > 0 the loop is always left in the end.  *)
C14_WallClockTimeout ==
    /\ [][(Polling /\ args.timeout > 0 /\ clock > args.timeout)
            => (spc' = "extract" /\ received' = received /\ stream' = stream
                /\ sh_output' = sh_output)]_vars
    /\ [][(Polling /\ spc' = "extract" /\ received' = received)
            => (args.timeout > 0 /\ clock > args.timeout)]_vars
    /\ [][(Polling /\ spc' = "poll") => clock' \in {clock, clock + 1}]_vars
    /\ (Polling /\ args.timeout > 0) ~> ~ Polling

(* the loop was left on time with a chunk read, none closing, and one unread *)
C14_Witness ==
    /\ QuerySent
    /\ spc = "done"
    /\ args.timeout > 0
    /\ clock = args.timeout + 1
    /\ received # <<>>
    /\ stream # <<>>
    /\ \A i \in 1..Len(received) : ~ ClosingChunk(received[i])

(* the poll loop of run_sql was left on line 114: a closing chunk or a     *)
(* failing read leaves it with the timeout not yet exceeded                *)
EndedByTimeout == QuerySent /\ spc # "poll" /\ timed_out(args.timeout, clock)

(* C15 as claimed: when the poll loop ended by timeout, run_sql returns    *)
(* normally the pair extract_query_output(partial transcript), after one   *)
(* attempt at the alert sound when alert is true.  A failing write of the  *)
(* log file is left aside: nothing but OSError from it may be raised.      *)
C15_TimeoutReturnsPartial ==
    EndedByTimeout =>
        /\ Len(alerts) = (IF args.alert THEN 1 ELSE 0)
        /\ spc = "raised" => (args.log_enabled /\ call_result.exc = "OSError")
        /\ spc = "done" => call_result = extract_query_output(sh_output)

----------------------------------------------------------------------------
(* What the claims say of the waits for a sentinel. *)

(* the sentinel of the running wait: ssh.py line 105, the marker argument  *)
(* of run_shell_blocking, core.py line 33                                  *)
Sentinel ==
    CASE proc = "run_shell" -> CmdDone
      [] proc = "run_shell_blocking" -> args.marker
      [] OTHER -> LoginBanner

(* the call is inside one of the three waits, about to take another turn *)
MarkerWait ==
    \/ proc \in {"run_shell", "run_shell_blocking"} /\ spc = "poll"
    \/ proc = "run_sql" /\ spc = "banner"

(* C16 as claimed: in each of the three waits the sentinel is looked for   *)
(* in the accumulated buffer whenever bytes arrive, so no further turn is  *)
(* taken once the buffer holds the sentinel, split across chunks or not.   *)
C16_StopsWhenBufferHoldsSentinel == MarkerWait => ~ Contains(sh_output, Sentinel)

----------------------------------------------------------------------------
(* What the claims say of how the shell calls end. *)

Blocking == proc = "run_shell_blocking"

(* the wait budget of run_shell_blocking is used up *)
BudgetSpent == ~ (clock < blocking_timeout * blocking_polls_per_second)

(* C17: run_shell_blocking returns only with the marker in the transcript  *)
(* it accumulated, and then the cleaned transcript; when its wait ended    *)
(* with the marker not in the transcript it raises RuntimeError, nothing   *)
(* of the partial transcript is returned, and the session was closed by    *)
(* then; RuntimeError is raised in no other case.                          *)
C17_BlockingNeedsMarker ==
    /\ [](Blocking /\ spc = "done" =>
             /\ Contains(sh_output, args.marker)
             /\ call_result.text = clean_output(sh_output, with_env(args.command))
             /\ session = "closed")
    /\ [](Blocking /\ spc = "raised" /\ call_result.exc = "RuntimeError" =>
             /\ ~ Contains(sh_output, args.marker)
             /\ BudgetSpent
             /\ call_result.text = <<>>
             /\ session = "closed")
    /\ [][Blocking /\ spc = "close" /\ ~ Contains(sh_output, args.marker) =>
             /\ spc' = "raised"
             /\ call_result' = [exc |-> "RuntimeError", text |-> <<>>, rows |-> <<>>]
             /\ session' = "closed"]_vars
    /\ [](Blocking /\ spc = "close" => (BudgetSpent \/ Contains(sh_output, args.marker)))

(* the budget ran out on a transcript without the marker, which is dropped *)
C17_Witness ==
    /\ Blocking
    /\ spc = "raised"
    /\ call_result = [exc |-> "RuntimeError", text |-> <<>>, rows |-> <<>>]
    /\ session = "closed"
    /\ sh_output = ShellOutput
    /\ BudgetSpent

(* run_shell left its loop on line 125 *)
LeftOnMarker == proc = "run_shell" /\ spc \in {"close", "done"} /\ Contains(sh_output, CmdDone)

(* C18 as claimed: when run_shell leaves its loop on the marker, the       *)
(* command has run to completion: the marker that the trailing echo prints *)
(* after the command, the last one of what the remote side sends, has been *)
(* read, also when the terminal echoes the line typed.                     *)
C18_MarkerMeansCompleted ==
    LeftOnMarker => Occurrences(sh_output, CmdDone) = Occurrences(WholeTranscript, CmdDone)

ShellPolling == proc = "run_shell" /\ spc = "poll"

(* C19 as claimed: every chunk received resets the idle counter; run_shell *)
(* leaves its loop without the marker only when more than max_idle_waits   *)
(* polls in a row found no bytes; and it then raises nothing and returns   *)
(* the cleaned transcript received so far.                                 *)
C19_GivesUpOnlyWhenIdle ==
    /\ [][ShellPolling /\ received' # received => idle_counter' = 0]_vars
    /\ [][ShellPolling /\ spc' # "poll" /\ ~ Contains(sh_output', CmdDone) =>
             /\ idle_counter' > max_idle_waits
             /\ idle_counter' = idle_counter + 1
             /\ received' = received]_vars
    /\ [][proc = "run_shell" /\ spc = "close" =>
             /\ spc' = "done"
             /\ call_result'.text = clean_output(sh_output, with_env(args.command))]_vars

----------------------------------------------------------------------------
(* What the claims say of the start of the beeline session. *)

(* beeline_session runs: it is about to send the login command, or waits   *)
(* for the banner                                                          *)
InBeelineSession == proc = "run_sql" /\ spc \in {"login", "banner"}

BannerWait == proc = "run_sql" /\ spc = "banner"

LoginTimedOut == clock > beeline_timeout * beeline_polls_per_second

(* what C20 says of the wait itself: it is left as soon as a chunk read    *)
(* shows the banner, and without one only when more than timeout has       *)
(* elapsed, by then at that turn unless the read fails; it is always left; *)
(* and from there run_sql goes on only by sending the query.               *)
BannerWaitRules ==
    /\ [][BannerWait /\ received' # received /\ Contains(Head(stream), LoginBanner) =>
             spc' = "drain"]_vars
    /\ [][BannerWait /\ spc' = "drain" =>
             \/ received' # received /\ Contains(Head(stream), LoginBanner)
             \/ LoginTimedOut]_vars
    /\ [][BannerWait /\ LoginTimedOut => spc' \in {"drain", "raised"}]_vars
    /\ [][BannerWait /\ spc' = "banner" => clock' = clock + 1]_vars
    /\ [][proc = "run_sql" /\ spc = "drain" /\ spc' \notin {"drain", "raised"} =>
             spc' = "poll" /\ sent' = Append(sent, "sql_query")]_vars
    /\ BannerWait ~> ~ BannerWait

(* C20 as claimed: beeline_session always returns normally, on the first   *)
(* chunk that shows the banner or once more than timeout has elapsed, and  *)
(* run_sql then sends the query.                                           *)
C20_AlwaysReturnsNormally ==
    /\ BannerWaitRules
    /\ [][InBeelineSession => spc' # "raised"]_vars

(* C20 amended: beeline_session raises only when its send or a read of the *)
(* shell fails, never for a banner that did not come; otherwise it returns *)
(* on the first chunk that shows the banner or once more than timeout has  *)
(* elapsed, and run_sql then sends the query.                              *)
C20_ReturnsUnlessTransportFails ==
    /\ BannerWaitRules
    /\ [][InBeelineSession /\ spc' = "raised" =>
             /\ call_result'.exc = "Exception"
             /\ spc = "banner" => stream # <<>>]_vars

(* the banner never came and the wait has timed out: beeline_session has *)
(* returned and run_sql is about to send the query                        *)
C20_Witness ==
    /\ proc = "run_sql"
    /\ spc = "drain"
    /\ sent = <<"su - root", "root_password", "beeline_command">>
    /\ ~ Contains(sh_output, LoginBanner)
    /\ LoginTimedOut

----------------------------------------------------------------------------
(* What the claims say of the guard, the alert and the configuration. *)

(* the dialog was shown and answered no *)
Declined == proc = "run_sql" /\ dialogs = <<FALSE>>

(* C21: when the guard is on, the query is classified dangerous and the    *)
(* dialog answers no, run_sql returns ('', 'Operation cancelled'), raises  *)
(* nothing, and makes no remote call: no connect attempt, no session,      *)
(* nothing sent, no block written to the log.  The dialog is asked in that *)
(* case unless the call already failed for want of its configuration.      *)
C21_CancelledWithoutRemoteCall ==
    /\ [](Declined =>
             /\ spc = "done"
             /\ call_result = [exc |-> "", text |-> <<>>, rows |-> <<"Operation cancelled">>]
             /\ session = "none"
             /\ connects = 0
             /\ sent = <<>>
             /\ log_file = <<>>)
    /\ [][(proc = "run_sql" /\ spc = "call" /\ args.warn /\ is_dangerous_sql(args.sql_query)
           /\ ~ args.confirm) =>
             \/ Declined'
             \/ /\ ~ args.config /\ ~ args.queue_name
                /\ spc' = "raised"
                /\ call_result'.exc = "FileNotFoundError"]_vars

(* DROP TABLE x was declined and the call is over *)
C21_Witness ==
    /\ Declined
    /\ args.sql_query = DropTable
    /\ args.warn
    /\ spc = "done"
    /\ call_result.rows = OperationCancelled

(* a keyword stands in the text, in any case, with no word character right *)
(* before it or right after it                                             *)
HasKeywordToken(text) ==
    \E k \in dangerous_keywords : \E i \in 1..Len(text) :
        /\ i + Len(k) - 1 <= Len(text)
        /\ Lower(SubSeq(text, i, i + Len(k) - 1)) = Lower(k)
        /\ (i = 1 \/ text[i - 1] \notin WordChars)
        /\ (i + Len(k) - 1 = Len(text) \/ text[i + Len(k)] \notin WordChars)

(* run_sql has just passed lines 93..97 with the guard on: it is about to *)
(* connect, or has returned without connecting                           *)
GuardConsulted ==
    proc = "run_sql" /\ args.warn /\ connects = 0 /\ spc \in {"connect", "done"}

(* the classifier answered true: the dialog was shown *)
Flagged == dialogs # <<>>

(* C22: with the default keywords is_dangerous_sql is true for             *)
(* 'DROP TABLE x' and 'GRANT ALL ON x TO y' and false for                  *)
(* 'SELECT * FROM x'; keywords match in any case and as whole tokens only, *)
(* so a keyword inside a longer identifier ('dropzone', 'exec_id') does    *)
(* not make a statement dangerous.                                         *)
C22_WholeTokenClassifier ==
    GuardConsulted =>
        /\ Flagged <=> HasKeywordToken(args.sql_query)
        /\ args.sql_query \in {DropTable, GrantAll, DropTableLower, DeleteFrom} => Flagged
        /\ args.sql_query \in {SelectAll, SelectDropzone, SelectExecId} => ~ Flagged

(* a query on a table named dropzone went past the guard unasked *)
C22_Witness ==
    /\ GuardConsulted
    /\ args.sql_query = SelectDropzone
    /\ ~ Flagged
    /\ spc = "connect"

(* C23: a sound that fails never reaches the caller of run_sql.  The step  *)
(* that tries the sound, on a closing chunk or on timeout, leaves the loop *)
(* for the parsing whatever became of the sound, as it does when alert is  *)
(* false; a step of the loop that raises has tried no sound; and what      *)
(* run_sql returns is extract_query_output of the transcript, which the    *)
(* sound has no part in.                                                   *)
C23_AlertFailureSwallowed ==
    /\ [][(proc = "run_sql" /\ alerts' # alerts) =>
             /\ args.alert /\ alerts = <<>> /\ Len(alerts') = 1
             /\ spc = "poll" /\ spc' = "extract"
             /\ call_result' = call_result
             /\ sh_output' = (IF received' = received THEN sh_output
                              ELSE sh_output \o Head(stream))]_vars
    /\ [][(Polling /\ spc' = "extract") => Len(alerts') = (IF args.alert THEN 1 ELSE 0)]_vars
    /\ [][(Polling /\ spc' = "raised") => alerts' = alerts]_vars
    /\ [](proc = "run_sql" /\ spc = "done" /\ connects > 0 =>
             call_result = extract_query_output(sh_output))

(* the sound failed on the closing chunk and the table was returned *)
C23_Witness ==
    /\ proc = "run_sql"
    /\ spc = "done"
    /\ alerts = <<"failed">>
    /\ sh_output = SqlTable
    /\ call_result = extract_query_output(SqlTable)
    /\ call_result.rows # <<>>

NoConfig == proc \in {"run_sql", "run_shell", "run_shell_blocking"} /\ ~ args.config

NothingRemote == session = "none" /\ connects = 0 /\ sent = <<>>

(* C24 as claimed: without the configuration file run_sql, run_shell and   *)
(* run_shell_blocking fail with FileNotFoundError, before a session is     *)
(* opened and before anything is sent.                                     *)
C24_NoConfigIsHardError ==
    NoConfig =>
        /\ NothingRemote
        /\ spc \in {"done", "raised"} =>
              (spc = "raised" /\ call_result.exc = "FileNotFoundError")

(* C24 amended: without the configuration file nothing is opened or sent,  *)
(* and the call fails with FileNotFoundError, except for a run_sql that    *)
(* was given a queue name and whose query the guard's dialog declined: it  *)
(* returns the cancellation without having read the configuration.         *)
C24_NoConfigFailsUnlessCancelled ==
    NoConfig =>
        /\ NothingRemote
        /\ spc \in {"call", "connect", "done", "raised"}
        /\ spc = "raised" => call_result.exc = "FileNotFoundError"
        /\ spc = "done" =>
              /\ proc = "run_sql" /\ args.queue_name /\ Declined
              /\ call_result.rows = OperationCancelled
        /\ spc = "connect" => proc = "run_sql" /\ args.queue_name

(* run_sql with a queue name went past the guard and failed in             *)
(* ssh_connection for want of the configuration                            *)
C24_Witness ==
    /\ NoConfig
    /\ proc = "run_sql"
    /\ args.queue_name
    /\ dialogs = <<TRUE>>
    /\ spc = "raised"
    /\ call_result.exc = "FileNotFoundError"

----------------------------------------------------------------------------
(* What the claims say of the order in which a transcript is read. *)

(* C25 as claimed: whenever the text holds a table opening pattern the     *)
(* result is the rendered table, wherever an 'Error:' may stand, and the   *)
(* error span is returned only when no table was found.  (The text is read *)
(* as what is left after the removal through the first prompt.)            *)
C25_TableBeforeError ==
    /\ (ExThrough /\ Openings(lines) # {}) =>
          LET first == SetMin(Openings(lines))
              last == SetMax(Borders(lines))
          IN  /\ ex_pc = "table"
              /\ ex_result.text = Strip(clean_out(Join(SubSeq(lines, first, last), <<LF>>)).val)
    /\ ex_pc = "error" => Openings(lines) = {}

----------------------------------------------------------------------------
(* What the claims say of texts of several pages. *)

(* the text without the lines that stand before its first border line *)
WithoutLeadingLines(text) ==
    LET ls == SplitLines(Strip(text))
        borders == {i \in 1..Len(ls) : divider_regex(ls[i])}
    IN  IF borders = {} THEN <<>>
        ELSE Join(SubSeq(ls, SetMin(borders), Len(ls)), <<LF>>)

(* C26 as claimed: lines that are no border lines and stand before the     *)
(* first border line are ignored: text_to_df does not fail on them and     *)
(* returns what it returns for the text without them.                      *)
C26_LeadingLinesIgnored ==
    DfReturned => df_result = text_to_df(WithoutLeadingLines(table_text))

(* C27: every dataset text_to_df returns is rectangular: each of its rows  *)
(* has as many cells as its header, also when the groups of the text have  *)
(* headers of different lengths or lines follow the closing border.        *)
C27_ReturnedDatasetRectangular ==
    (DfReturned /\ df_result.exc = "") =>
        \A r \in 1..Len(df_result.val.rows) :
            Len(df_result.val.rows[r]) = Len(df_result.val.header)

(* a longer header came after a group of shorter rows, whose rows were     *)
(* filled up with None                                                     *)
C27_Witness ==
    /\ DfReturned
    /\ df_result.exc = ""
    /\ Len(df_result.val.header) = 2
    /\ \E r \in 1..Len(df_result.val.rows) : df_result.val.rows[r][2] = None
    /\ \E r \in 1..Len(df_result.val.rows) : df_result.val.rows[r][2] # None

RECURSIVE AllPageRows(_)
AllPageRows(pages) ==
    IF pages = <<>> THEN <<>> ELSE Head(pages)[2] \o AllPageRows(Tail(pages))

(* two or more groups under one header, nothing before or after them *)
SameHeaderDocs ==
    {doc \in PageDocs :
        /\ doc[1] = <<>> /\ doc[3] = <<>>
        /\ Len(doc[2]) >= 2
        /\ \A g \in 1..Len(doc[2]) : doc[2][g][1] = doc[2][1][1]}

(* each such text with the header and the rows drawn in it *)
SameHeaderCases ==
    {<<DrawPages(doc[1], doc[2], doc[3]), Dataset(doc[2][1][1], AllPageRows(doc[2]))>> :
        doc \in SameHeaderDocs}

(* C28: for a text of two or more groups with the same header H, each a    *)
(* header line, a border and data lines, with one border between           *)
(* consecutive groups, text_to_df returns H and the data rows of all       *)
(* groups in the order of the text, and nothing else as a row.             *)
C28_GroupsFeedOneDataset ==
    DfReturned =>
        \A case \in SameHeaderCases :
            table_text = case[1] => df_result = Ok(case[2])

(* two groups of one row each were read into a dataset of two rows *)
C28_Witness ==
    /\ DfReturned
    /\ \E case \in SameHeaderCases : table_text = case[1] /\ Len(case[2].rows) >= 2
    /\ df_result.exc = ""
    /\ Len(df_result.val.rows) >= 2

(* in the poll loop of run_sql, run_shell or run_shell_blocking *)
InPollLoop == proc \in {"run_sql", "run_shell", "run_shell_blocking"} /\ spc = "poll"

IsPrefixOf(s, t) == Len(s) <= Len(t) /\ SubSeq(t, 1, Len(s)) = s

(* C29: at every step of the poll loops of run_sql, run_shell and          *)
(* run_shell_blocking the transcript is the concatenation of the chunks    *)
(* received so far in the order of arrival: a turn of the loop either      *)
(* leaves the transcript alone or takes the next chunk of the channel and  *)
(* puts it at the end, so an earlier transcript is a prefix of a later     *)
(* one and no chunk is dropped, doubled or moved.                          *)
C29_TranscriptIsChunksInOrder ==
    /\ [](InPollLoop => sh_output = Join(received, <<>>))
    /\ [][InPollLoop =>
            /\ IsPrefixOf(sh_output, sh_output')
            /\ sh_output' = Join(received', <<>>)
            /\ \/ sh_output' = sh_output /\ stream' = stream /\ received' = received
               \/ /\ stream # <<>>
                  /\ stream' = Tail(stream)
                  /\ received' = Append(received, Head(stream))
                  /\ sh_output' = sh_output \o Head(stream)]_vars

(* a second chunk was put behind a first one, in each of the three loops *)
C29_Witness ==
    /\ InPollLoop
    /\ Len(received) >= 2
    /\ received[1] # <<>> /\ received[2] # <<>> /\ received[1] # received[2]
    /\ sh_output = received[1] \o received[2]

(* in the poll loop of run_sql *)
SqlPolling == proc = "run_sql" /\ spc = "poll"

(* run_sql has returned after a query was sent *)
SqlAnswered == proc = "run_sql" /\ spc = "done" /\ sent # <<>>

(* C30: the count of rows shown while polling has no say in the end of the *)
(* loop or in the result: run_sql leaves its poll loop exactly when the    *)
(* time is up or the chunk just read holds a closing phrase, and returns   *)
(* what extract_query_output makes of the chunks read, with io and without *)
(* it; io decides only whether the counts are shown.                       *)
C30_ProgressHasNoSay ==
    /\ [](SqlAnswered =>
            /\ call_result.text = extract_query_output(Join(received, <<>>)).text
            /\ call_result.rows = extract_query_output(Join(received, <<>>)).rows)
    /\ []((proc = "run_sql" /\ ~ args.io) => progress = <<>>)
    /\ [][SqlPolling =>
            /\ spc' = "extract" <=>
                  \/ timed_out(args.timeout, clock)
                  \/ received' # received /\ IsTerminal(received'[Len(received')])
            /\ spc' \in {"poll", "extract", "raised"}
            /\ (args.io /\ received' # received) => Len(progress') = Len(progress) + 1]_vars

(* run_sql showed a count of one row or more while polling and returned *)
C30_Witness ==
    /\ SqlAnswered
    /\ args.io
    /\ \E i \in 1..Len(progress) : progress[i] >= 1
    /\ call_result.text # <<>>

----------------------------------------------------------------------------
(* What the claims say of the order of the steps of a call. *)

(* the queries of the check that the classifier flags *)
FlaggedQueries == {q \in Queries : is_dangerous_sql(q)}

(* run_sql has left lines 89..97 and has not yet tried to connect *)
PastGuard == proc = "run_sql" /\ spc # "call" /\ connects = 0

(* the step of lines 89..97 *)
GuardStep == proc = "run_sql" /\ spc = "call" /\ spc' # "call"

(* the dialog is shown at most once, and before anything remote *)
DialogFirst ==
    /\ [](Len(dialogs) <= 1)
    /\ [][dialogs' # dialogs =>
             GuardStep /\ session = "none" /\ connects = 0 /\ sent = <<>>]_vars

(* C31 as claimed: the dialog of run_sql is shown exactly when warn is     *)
(* true and the query is classified dangerous; with warn false or a query  *)
(* not classified dangerous it is not shown and the call goes on to open   *)
(* its session; when shown, it is shown before a session is opened.        *)
C31_ConfirmationIffFlagged ==
    /\ DialogFirst
    /\ [](PastGuard =>
             (dialogs # <<>> <=> (args.warn /\ args.sql_query \in FlaggedQueries)))
    /\ [][(GuardStep /\ ~ (args.warn /\ args.sql_query \in FlaggedQueries))
             => spc' = "connect"]_vars

(* the queue name is given, or the configuration that holds the default    *)
(* one exists                                                              *)
QueueNameFound == args.queue_name \/ args.config

(* C31, amended: the same for a call that finds its queue name; a call     *)
(* without one and without a configuration fails on line 90, before the    *)
(* guard, and shows no dialog whatever the query.  The dialog is never     *)
(* shown with warn false or for a query not classified dangerous.          *)
C31_ConfirmationIffFlaggedAndQueueFound ==
    /\ DialogFirst
    /\ [](PastGuard =>
             /\ dialogs # <<>> => (args.warn /\ args.sql_query \in FlaggedQueries)
             /\ QueueNameFound =>
                   (dialogs # <<>> <=> (args.warn /\ args.sql_query \in FlaggedQueries))
             /\ ~ QueueNameFound => (dialogs = <<>> /\ call_result.exc = "FileNotFoundError"))
    /\ [][(GuardStep /\ QueueNameFound /\ ~ (args.warn /\ args.sql_query \in FlaggedQueries))
             => spc' = "connect"]_vars

(* a flagged query was confirmed in the dialog and the call is about to    *)
(* open its session                                                        *)
C31_Witness ==
    /\ PastGuard
    /\ args.warn
    /\ args.sql_query \in FlaggedQueries
    /\ dialogs = <<TRUE>>
    /\ spc = "connect"
    /\ session = "none"

(* run_sql has ended, by return or by exception *)
SqlEnded == proc = "run_sql" /\ spc \in {"done", "raised"}

(* the block of lines 186..192 for the result of the call *)
LogBlock == [query |-> "sql_query", text |-> call_result.text, rows |-> call_result.rows]

(* C32 as claimed: a run_sql call that executed its command with           *)
(* log_enabled true appends exactly one block, of the query sent, the      *)
(* cleaned output and the row-count line, behind what the log held, which  *)
(* it leaves as it was; with log_enabled false, or when the guard          *)
(* cancelled the command, the log is unchanged.  In steps: once the poll   *)
(* loop of an executed command is left, the call comes to lines 175..192,  *)
(* and there it writes the block unless the write itself fails.            *)
C32_LogFrame ==
    /\ []((SqlEnded /\ QuerySent /\ args.log_enabled /\ spc = "done") =>
             log_file = <<LogBlock>>)
    /\ []((proc = "run_sql" /\ (~ args.log_enabled \/ ~ QuerySent)) => log_file = <<>>)
    /\ [][log_file' # log_file =>
             (spc = "log" /\ Len(log_file') = Len(log_file) + 1
              /\ SubSeq(log_file', 1, Len(log_file)) = log_file)]_vars
    /\ [][(proc = "run_sql" /\ spc = "extract" /\ spc' # "extract") => spc' = "log"]_vars

(* the texts a call sends once ssh_connection has returned *)
CommandTexts == {"beeline_command", "sql_query", "full_command", "command"}

(* the step of ssh_connection *)
ConnectStep == spc = "connect" /\ spc' # "connect"

StepOrder == <<"size", "describe", "export", "merge", "cleanup", "chmod", "download">>

IsIssue(e) == e[1] = "issue"

(* C34: table_to_df issues its steps in the order describe, export, merge  *)
(* (by run_shell_blocking), clean-up of HDFS, chmod, download, each after  *)
(* the call before it has returned; the clean-up is issued only after      *)
(* run_shell_blocking has returned normally from the merge; and when a     *)
(* call raises, as run_shell_blocking does without its marker, no step     *)
(* follows and table_to_df returns None.                                   *)
C34_StepsInOrder ==
    LET issues == SelectSeq(td_trace, IsIssue)
    IN  /\ \A i \in 1..Len(issues) : issues[i][2] = StepOrder[i]
        /\ \A i \in 1..Len(td_trace) :
              /\ (IsIssue(td_trace[i]) /\ i > 1) => td_trace[i - 1][1] = "return"
              /\ ~ IsIssue(td_trace[i]) =>
                    (i > 1 /\ td_trace[i - 1] = <<"issue", td_trace[i][2]>>)
              /\ td_trace[i] = <<"issue", "cleanup">> => td_trace[i - 1] = <<"return", "merge">>
              /\ td_trace[i][1] = "raise" =>
                    /\ i = Len(td_trace)
                    /\ td_pc = "ended"
                    /\ td_trace[i][2] # "size" => td_result = "None"
        /\ proc # "idle" =>
              (td_trace # <<>> /\ td_trace[Len(td_trace)] = <<"issue", td_pc>>
               /\ (td_pc = "merge" <=> proc = "run_shell_blocking"))
        /\ (td_pc = "merge" /\ spc = "raised" /\ call_result.exc = "RuntimeError") =>
              ~ Contains(sh_output, Complete)

(* run_shell_blocking raised for want of its marker: the merge was the     *)
(* last step and None was returned                                         *)
C34_Witness ==
    /\ td_pc = "ended"
    /\ td_result = "None"
    /\ td_trace = <<<<"issue", "size">>, <<"return", "size">>,
                    <<"issue", "describe">>, <<"return", "describe">>,
                    <<"issue", "export">>, <<"return", "export">>,
                    <<"issue", "merge">>, <<"raise", "merge", "RuntimeError">>>>

----------------------------------------------------------------------------
(* What the claims say of the table clean_out draws. *)

Rendered == df_pc \in {"rendered", "reparsed"}

RenderedLines == SplitLines(rendered.val)

(* the characters of a line that take a place on the screen: all but the   *)
(* zero-width marker                                                       *)
VisibleLen(line) == Len(Remove(line, {ZWSP}))

(* the '+'-separated segments of a border line *)
Segments(border) == SubSeq(Split(border, <<"+">>), 2, Len(Split(border, <<"+">>)) - 1)

LongestCell(rows, i) == SetMax({Len(rows[r][i]) : r \in 1..Len(rows)})

NoZeroWidthIn(t) == Range(t) \cap zero_width_chars = {}

(* C35: when every row of the table has as many cells as its header,      *)
(* clean_out draws each border segment with as many dashes as the longest  *)
(* trimmed cell of its column plus 2 plus the pad, the three borders are   *)
(* the same line, and all lines it draws (borders, header, data rows) have *)
(* the same number of visible characters, the zero-width marker not        *)
(* counted.                                                                *)
C35_ColumnsAligned ==
    (Rendered /\ clean_out_rows(table_text) # <<>> /\ WellFormed(table_text)) =>
        LET rows == clean_out_rows(table_text)
            drawn == RenderedLines
        IN  /\ Len(drawn) = Len(rows) + 3
            /\ Len(Segments(drawn[1])) = Len(rows[1])
            /\ \A i \in 1..Len(rows[1]) :
                  Segments(drawn[1])[i] = Rep("-", LongestCell(rows, i) + 2 + extra_pad)
            /\ drawn[3] = drawn[1]
            /\ drawn[Len(drawn)] = drawn[1]
            /\ \A l \in 1..Len(drawn) : VisibleLen(drawn[l]) = VisibleLen(drawn[1])

(* C36: for a well-formed table text t, clean_out gives for clean_out(t)   *)
(* the text clean_out(t) itself: the marker of the first rendering is no   *)
(* cell content, widens no column and is not put in a second time.         *)
C36_RenderIdempotent ==
    (Rendered /\ WellFormed(table_text)) => clean_out(rendered.val) = rendered

----------------------------------------------------------------------------
(* What the claims say of the moment the query is sent. *)

SendsQuery == proc = "run_sql" /\ sent' = Append(sent, "sql_query")

LoginSent == <<"su - root", "root_password", "beeline_command">>

DrainsChunk == proc = "run_sql" /\ spc = "drain" /\ spc' = "drain" /\ stream' # stream

(* C37: run_sql sends the query from the place after beeline_session has   *)
(* returned, where what has arrived is read and dropped, and after the     *)
(* login and nothing else was sent; a chunk read there goes nowhere; the   *)
(* transcript is empty when the query is sent and from then on grows only  *)
(* by the chunk read, so nothing read before the send is in it; and the    *)
(* query, with its line of ';', is sent once.                              *)
C37_QuerySentAfterLoginAndDrain ==
    /\ [][SendsQuery => /\ spc = "drain"
                        /\ sent = LoginSent
                        /\ sh_output' = <<>>]_vars
    /\ [][DrainsChunk => /\ stream' = Tail(stream)
                         /\ UNCHANGED <<sh_output, received, sent>>]_vars
    /\ [][SqlPolling => \/ sh_output' = sh_output
                        \/ /\ stream # <<>>
                           /\ sh_output' = sh_output \o Head(stream)
                           /\ stream' = Tail(stream)]_vars
    /\ []((proc = "run_sql" /\ spc \in {"poll", "extract", "log", "close"}) =>
             sent = Append(LoginSent, "sql_query"))
    /\ [](QuerySent => Cardinality({i \in 1..Len(sent) : sent[i] = "sql_query"}) = 1)

(* the transcript goes to extract_query_output with the answer to the      *)
(* query in it and none of the banner the login had shown before the send  *)
C37_Witness ==
    /\ proc = "run_sql"
    /\ spc = "extract"
    /\ sent = Append(LoginSent, "sql_query")
    /\ Contains(sh_output, ErrorLine)
    /\ ~ Contains(sh_output, LoginBanner)
    /\ stream = <<>>

----------------------------------------------------------------------------
(* What the claims say of the month codes. *)

FourDigitYear(n) == year_of(n) \in 1000..9999

(* six digits, the last two a month from 01 to 12 *)
ValidYYYYMM(v) ==
    /\ v.kind = "str"
    /\ Len(v.s) = 6
    /\ \A i \in 1..6 : v.s[i] \in Digits
    /\ SubSeq(v.s, 5, 6) \in MonthTexts

Converted == mo_pc \in {"converted", "reconverted"}

(* with an offset k, a month code m gives what m + k gives, and a text     *)
(* gives k more than it gives with no offset                               *)
OffsetLaws ==
    /\ (Converted /\ mo_args.value.kind = "int") =>
          mo_result = convert_month(IntVal(mo_args.value.n + mo_args.offset), 0)
    /\ (mo_args.fn = "convert_month" /\ mo_pc # "start" /\ ValidYYYYMM(mo_args.value)) =>
          /\ Converted
          /\ mo_result = Ok(IntVal(convert_month(mo_args.value, 0).val.n + mo_args.offset))

MonthCodeRoundTrip ==
    (mo_pc = "reconverted" /\ mo_args.offset = 0 /\ mo_args.value.kind = "int"
        /\ FourDigitYear(mo_args.value.n)) =>
        mo_back = Ok(mo_args.value)

(* C38 as claimed: convert_month applied twice gives back a month code of  *)
(* a four-digit year, and gives back every valid 'YYYYMM' text; with an    *)
(* offset k, convert_month(m, k) = convert_month(m + k) and                *)
(* convert_month(s, k) = convert_month(s) + k.                             *)
C38_ConvertMonthInverse ==
    /\ MonthCodeRoundTrip
    /\ (mo_pc = "reconverted" /\ mo_args.offset = 0 /\ ValidYYYYMM(mo_args.value)) =>
          mo_back = Ok(mo_args.value)
    /\ OffsetLaws

(* C38 amended: the same, the texts given back being those of a year from  *)
(* 1000 to 9999, the years the month codes of the claim have.              *)
C38_ConvertMonthInverseFrom1000 ==
    /\ MonthCodeRoundTrip
    /\ (mo_pc = "reconverted" /\ mo_args.offset = 0 /\ ValidYYYYMM(mo_args.value)
           /\ Head(mo_args.value.s) # "0") =>
          mo_back = Ok(mo_args.value)
    /\ OffsetLaws

(* '202412' gave 659 and 659 gave '202412' *)
C38_Witness ==
    /\ mo_pc = "reconverted"
    /\ mo_args.offset = 0
    /\ mo_args.value = StrVal(<<"2", "0", "2", "4", "1", "2">>)
    /\ mo_result = Ok(IntVal(659))
    /\ mo_back = Ok(mo_args.value)

(* C39: this_monthx(r, ref) prints r + 1 lines; the line of offset -i has  *)
(* the month code ref - i, for i from r down to 1, and the last line, the  *)
(* ruled one, has ref: the codes go up by one from line to line.           *)
C39_MonthsConsecutive ==
    (mo_pc = "done" /\ mo_args.ref_given) =>
        /\ Len(printed) = mo_args.r + 1
        /\ \A j \in 1..Len(printed) :
              /\ printed[j].month_code = mo_args.ref - (mo_args.r + 1 - j)
              /\ printed[j].offset = 0 - (mo_args.r + 1 - j)
              /\ printed[j].ruled = (j = mo_args.r + 1)

====
